---- MODULE Spec2Model ----
(***************************************************************************)
(* Report ingestion and snapshot aggregation of financial-workflows:       *)
(* SalesforceReportService.get_report_data (the totals it computes),       *)
(* create_pipeline_snapshot (record mapper, aggregator, snapshot           *)
(* assembler) and export_to_csv, from src/src/services/report_service.py.  *)
(* Spec is one run of the pipeline; SpecExport calls the mapper again on   *)
(* the same report and exports reports of dated rows; SpecThreads lets two *)
(* threads run export_to_csv one to_csv at a time while the clock goes on. *)
(*                                                                         *)
(* Python values are tagged records: None, a number, a str or a datetime.  *)
(* A str is the sequence of its characters, so that float(), int(),        *)
(* str.split() and datetime.strptime() are computed character by           *)
(* character.  A number n stands for n/100: floats are kept in hundredths  *)
(* (the sample amounts carry at most two decimals).                        *)
(***************************************************************************)
EXTENDS Integers, Sequences, FiniteSets, TLC

\* ------------------------------------------------------------------ bounds
\* Longest raw_data list a ReportData of the model holds.
MaxRows == 2

\* ----------------------------------------------------------- Python values
PyNone == [k |-> "none"]
\* A key that the row dict does not hold (row.get's default applies).
Absent == [k |-> "absent"]
Num(n) == [k |-> "num", n |-> n]
Str(s) == [k |-> "str", s |-> s]
Date(y, m, d) == [k |-> "date", y |-> y, m |-> m, d |-> d]

\* bool(v): None, 0 and '' are falsy.
Truthy(v) ==
    CASE v.k = "none" -> FALSE
      [] v.k = "num" -> v.n # 0
      [] v.k = "str" -> v.s # << >>
      [] OTHER -> TRUE

\* x or y
PyOr(x, y) == IF Truthy(x) THEN x ELSE y

\* dict.get(key, default)
Get(row, label, default) == IF row[label] = Absent THEN default ELSE row[label]

\* An exception: its type, the cell (label) whose conversion raised it, and
\* whether its message quotes the whole raw cell value.
Exc(type, label, quotes_raw) ==
    [type |-> type, label |-> label, quotes_raw |-> quotes_raw]
Ok(v) == [ok |-> TRUE, v |-> v]
Raise(type, label, quotes_raw) == [ok |-> FALSE, exc |-> Exc(type, label, quotes_raw)]

\* ------------------------------------------------------------------ digits
Digits == {"0", "1", "2", "3", "4", "5", "6", "7", "8", "9"}
DigitVal(c) ==
    CASE c = "0" -> 0 [] c = "1" -> 1 [] c = "2" -> 2 [] c = "3" -> 3
      [] c = "4" -> 4 [] c = "5" -> 5 [] c = "6" -> 6 [] c = "7" -> 7
      [] c = "8" -> 8 [] c = "9" -> 9

AllDigits(s) == \A j \in 1..Len(s) : s[j] \in Digits

RECURSIVE DecimalValue(_)
\* The number a non-empty digit string denotes.
DecimalValue(s) ==
    IF s = << >> THEN 0
    ELSE 10 * DecimalValue(SubSeq(s, 1, Len(s) - 1)) + DigitVal(s[Len(s)])

\* Index of the first occurrence of character c in s, 0 if there is none.
IndexOf(s, c) ==
    IF \E j \in 1..Len(s) : s[j] = c
    THEN CHOOSE j \in 1..Len(s) : s[j] = c /\ \A h \in 1..(j - 1) : s[h] # c
    ELSE 0

Tail0(s, from) == SubSeq(s, from, Len(s))

\* ---------------------------------------------------------- float(), int()
\* The hundredths a fraction digit string denotes (digits past the second are
\* below the model's resolution).
FractionValue(f) ==
    CASE Len(f) = 0 -> 0
      [] Len(f) = 1 -> 10 * DigitVal(f[1])
      [] OTHER -> 10 * DigitVal(f[1]) + DigitVal(f[2])

\* float(str): an optional sign, digits and at most one decimal point, with a
\* digit on at least one side of it.  '$' and ',' are not accepted.
FloatOfStr(s) ==
    LET signed == Len(s) > 0 /\ s[1] \in {"+", "-"}
        body == IF signed THEN Tail0(s, 2) ELSE s
        dot == IndexOf(body, ".")
        ip == IF dot = 0 THEN body ELSE SubSeq(body, 1, dot - 1)
        fp == IF dot = 0 THEN << >> ELSE Tail0(body, dot + 1)
        wellformed == AllDigits(ip) /\ AllDigits(fp) /\ Len(ip) + Len(fp) > 0
        mag == 100 * DecimalValue(ip) + FractionValue(fp)
    IN  IF wellformed
        THEN [ok |-> TRUE, n |-> IF signed /\ s[1] = "-" THEN 0 - mag ELSE mag]
        ELSE [ok |-> FALSE]

\* float(v) for the cell under `label`.
PyFloat(v, label) ==
    CASE v.k = "num" -> Ok(Num(v.n))
      [] v.k = "str" ->
            IF FloatOfStr(v.s).ok THEN Ok(Num(FloatOfStr(v.s).n))
            ELSE Raise("ValueError", label, TRUE)
      [] OTHER -> Raise("TypeError", label, FALSE)

\* int(v): truncation of a number, a digit string (optionally signed) only.
PyInt(v, label) ==
    CASE v.k = "num" ->
            Ok(Num(IF v.n >= 0 THEN 100 * (v.n \div 100)
                   ELSE 0 - 100 * ((0 - v.n) \div 100)))
      [] v.k = "str" ->
            LET signed == Len(v.s) > 0 /\ v.s[1] \in {"+", "-"}
                body == IF signed THEN Tail0(v.s, 2) ELSE v.s
                mag == 100 * DecimalValue(body)
            IN  IF Len(body) > 0 /\ AllDigits(body)
                THEN Ok(Num(IF signed /\ v.s[1] = "-" THEN 0 - mag ELSE mag))
                ELSE Raise("ValueError", label, TRUE)
      [] OTHER -> Raise("TypeError", label, FALSE)

\* float(row.get(label, 0) or 0)
FloatOrZero(row, label) == PyFloat(PyOr(Get(row, label, Num(0)), Num(0)), label)

\* --------------------------------------------------------------- str.split
RECURSIVE Split(_, _)
\* s.split(sep) for a one-character separator: never empty, '' gives [''].
Split(s, sep) ==
    LET j == IndexOf(s, sep)
    IN  IF j = 0 THEN << s >>
        ELSE << SubSeq(s, 1, j - 1) >> \o Split(Tail0(s, j + 1), sep)

\* ------------------------------------------------------- datetime.strptime
IsLeap(y) == (y % 4 = 0 /\ y % 100 # 0) \/ y % 400 = 0
DaysInMonth(y, m) ==
    CASE m \in {4, 6, 9, 11} -> 30
      [] m = 2 -> IF IsLeap(y) THEN 29 ELSE 28
      [] OTHER -> 31

\* Whether s holds character sep at position p ("" asks for nothing).
HasAt(s, p, sep) == sep = "" \/ (p <= Len(s) /\ s[p] = sep)

\* The two-character alternatives of the directive's pattern, at position p:
\* %m is 1[0-2]|0[1-9]|[1-9], %d is 3[01]|[12]\d|0[1-9]|[1-9]| [1-9].
Tok2(s, p, directive) ==
    /\ p + 1 <= Len(s)
    /\ IF directive = "m"
       THEN \/ s[p] = "1" /\ s[p + 1] \in {"0", "1", "2"}
            \/ s[p] = "0" /\ s[p + 1] \in Digits \ {"0"}
       ELSE \/ s[p] = "3" /\ s[p + 1] \in {"0", "1"}
            \/ s[p] \in {"1", "2"} /\ s[p + 1] \in Digits
            \/ s[p] \in {"0", " "} /\ s[p + 1] \in Digits \ {"0"}
\* The one-character alternative [1-9].
Tok1(s, p) == p <= Len(s) /\ s[p] \in Digits \ {"0"}

\* Length of the %m or %d token the pattern matches at p when sep must follow
\* it (0: no alternative matches).  The alternatives are tried in order, and
\* the separator after the token leaves at most one of them.
TokLen(s, p, directive, sep) ==
    IF Tok2(s, p, directive) /\ HasAt(s, p + 2, sep) THEN 2
    ELSE IF Tok1(s, p) /\ HasAt(s, p + 1, sep) THEN 1
    ELSE 0

TokVal(s, p, len) ==
    IF s[p] = " " THEN DigitVal(s[p + 1]) ELSE DecimalValue(SubSeq(s, p, p + len - 1))

\* What strptime makes of a matched year, month, day and match end: the
\* whole string must be consumed and the day must exist in the calendar.
StrptimeFinish(s, end, y, m, d) ==
    IF Len(s) # end THEN [ok |-> FALSE, why |-> "unconverted data remains"]
    ELSE IF y < 1 \/ d > DaysInMonth(y, m)
    THEN [ok |-> FALSE, why |-> "out of range"]
    ELSE [ok |-> TRUE, v |-> Date(y, m, d)]

NoMatch == [ok |-> FALSE, why |-> "does not match format"]

\* datetime.strptime(s, '%Y-%m-%d')
StrptimeYmd(s) ==
    LET yOk == Len(s) >= 5 /\ AllDigits(SubSeq(s, 1, 4)) /\ s[5] = "-"
        mL == TokLen(s, 6, "m", "-")
        dP == 6 + mL + 1
        dL == TokLen(s, dP, "d", "")
    IN  IF ~yOk \/ mL = 0 \/ dL = 0 THEN NoMatch
        ELSE StrptimeFinish(s, dP + dL - 1, DecimalValue(SubSeq(s, 1, 4)),
                            TokVal(s, 6, mL), TokVal(s, dP, dL))

\* datetime.strptime(s, '%m/%d/%Y')
StrptimeMdy(s) ==
    LET mL == TokLen(s, 1, "m", "/")
        dP == 1 + mL + 1
        dL == TokLen(s, dP, "d", "/")
        yP == dP + dL + 1
        yOk == yP + 3 <= Len(s) /\ AllDigits(SubSeq(s, yP, yP + 3))
    IN  IF mL = 0 \/ dL = 0 \/ ~yOk THEN NoMatch
        ELSE StrptimeFinish(s, yP + 3, DecimalValue(SubSeq(s, yP, yP + 3)),
                            TokVal(s, 1, mL), TokVal(s, dP, dL))

\* datetime.strptime(s, '%d/%m/%Y'): the day before the month.
StrptimeDmy(s) ==
    LET dL == TokLen(s, 1, "d", "/")
        mP == 1 + dL + 1
        mL == TokLen(s, mP, "m", "/")
        yP == mP + mL + 1
        yOk == yP + 3 <= Len(s) /\ AllDigits(SubSeq(s, yP, yP + 3))
    IN  IF mL = 0 \/ dL = 0 \/ ~yOk THEN NoMatch
        ELSE StrptimeFinish(s, yP + 3, DecimalValue(SubSeq(s, yP, yP + 3)),
                            TokVal(s, mP, mL), TokVal(s, 1, dL))

\* The alternate format of line 83.
StrptimeAlternate(s) == StrptimeMdy(s)

\* A close date whose second parse error is swallowed (close_date = None).
ParseCloseDateSwallow(row) ==
    LET cell == Get(row, "Close Date", PyNone)
    IN  IF ~Truthy(cell) THEN Ok(PyNone)
        ELSE IF cell.k # "str" THEN Raise("TypeError", "Close Date", FALSE)
        ELSE IF StrptimeYmd(cell.s).ok THEN Ok(StrptimeYmd(cell.s).v)
        ELSE IF StrptimeAlternate(cell.s).ok THEN Ok(StrptimeAlternate(cell.s).v)
        ELSE Ok(PyNone)

\* Lines 77-83: close_date of a row.  A falsy cell gives None; otherwise the
\* first format is tried and, on its ValueError, the second, whose error
\* escapes.  strptime of a non-str raises TypeError, which is not caught.
\* Only the "does not match format" message quotes the raw string.
ParseCloseDate(row) ==
    LET cell == Get(row, "Close Date", PyNone)
    IN  IF ~Truthy(cell) THEN Ok(PyNone)
        ELSE IF cell.k # "str" THEN Raise("TypeError", "Close Date", FALSE)
        ELSE IF StrptimeYmd(cell.s).ok THEN Ok(StrptimeYmd(cell.s).v)
        ELSE IF StrptimeAlternate(cell.s).ok THEN Ok(StrptimeAlternate(cell.s).v)
        ELSE Raise("ValueError", "Close Date",
                   StrptimeAlternate(cell.s).why = "does not match format")

\* Lines 86-88: fiscal_quarter and fiscal_year of a row.  The default '' is
\* used only when the key is absent; None or a number has no split().
ParseFiscalPeriod(row) ==
    LET cell == Get(row, "Fiscal Period", Str(<< >>))
        fiscal_info == Split(cell.s, " ")
    IN  IF cell.k # "str" THEN Raise("AttributeError", "Fiscal Period", FALSE)
        ELSE Ok([fiscal_quarter |-> IF Len(fiscal_info) > 0
                                    THEN Str(fiscal_info[1]) ELSE PyNone,
                 fiscal_year |-> IF Len(fiscal_info) > 1
                                 THEN Str(fiscal_info[2]) ELSE PyNone])

\* ------------------------------------------------------------ Record Mapper
\* The column labels create_pipeline_snapshot reads, and one it never reads
\* (an upstream gap column).
Labels ==
    {"Opportunity ID", "Opportunity Name", "Stage", "Amount", "Expected Value",
     "Expected Income", "Expected Value Gap", "Close Date", "Fiscal Period",
     "Account ID", "Owner ID", "Owner Name", "Type", "Product Line", "Region",
     "Probability", "Forecast Category"}

ClosedWon == <<"C", "l", "o", "s", "e", "d", " ", "W", "o", "n">>
Unknown == <<"U", "n", "k", "n", "o", "w", "n">>

\* A gap that trusts an upstream gap cell when the row carries one.
ExpectedValueGapUpstream(row, ev, ei) ==
    Get(row, "Expected Value Gap", Num(ev.n - ei.n))

\* (expected_value - expected_income) or None: a zero gap turns into None.
ExpectedValueGapOrNone(row, ev, ei) ==
    IF ev.n = ei.n THEN PyNone ELSE Num(ev.n - ei.n)

\* Line 102: expected_value_gap=expected_value - expected_income
ExpectedValueGap(row, ev, ei) == Num(ev.n - ei.n)

\* Lines 95-116: the Opportunity of a pipeline row.  ev, ei, amount and
\* probability are the converted cells.
PipelineOpportunity(row, close_date, fiscal, ev, ei, amount, probability) ==
    [id |-> Get(row, "Opportunity ID", PyNone),
     name |-> Get(row, "Opportunity Name", PyNone),
     stage_name |-> Get(row, "Stage", PyNone),
     amount |-> amount,
     expected_value |-> ev,
     expected_income |-> ei,
     expected_value_gap |-> ExpectedValueGap(row, ev, ei),
     close_date |-> close_date,
     fiscal_quarter |-> fiscal.fiscal_quarter,
     fiscal_year |-> fiscal.fiscal_year,
     account_id |-> Get(row, "Account ID", PyNone),
     owner_id |-> Get(row, "Owner ID", PyNone),
     owner_name |-> Get(row, "Owner Name", PyNone),
     type |-> Get(row, "Type", PyNone),
     product_line |-> Get(row, "Product Line", PyNone),
     region |-> Get(row, "Region", PyNone),
     probability |-> probability,
     forecast_category |-> Get(row, "Forecast Category", PyNone),
     is_closed |-> FALSE,
     is_won |-> FALSE]

\* A stage read from the row when it has one.
ClosedWonStageFromRow(row) == Get(row, "Stage", Str(ClosedWon))

\* Line 122: stage_name='Closed Won'
ClosedWonStage(row) == Str(ClosedWon)

\* Lines 119-135: the Opportunity of a closed-won row; the fields it does not
\* pass keep the dataclass defaults (opportunity.py lines 20-22, 42-43).
ClosedWonOpportunity(row, close_date, fiscal, amount) ==
    [id |-> Get(row, "Opportunity ID", PyNone),
     name |-> Get(row, "Opportunity Name", PyNone),
     stage_name |-> ClosedWonStage(row),
     amount |-> amount,
     expected_value |-> PyNone,
     expected_income |-> PyNone,
     expected_value_gap |-> PyNone,
     close_date |-> close_date,
     fiscal_quarter |-> fiscal.fiscal_quarter,
     fiscal_year |-> fiscal.fiscal_year,
     account_id |-> Get(row, "Account ID", PyNone),
     owner_id |-> Get(row, "Owner ID", PyNone),
     owner_name |-> Get(row, "Owner Name", PyNone),
     type |-> Get(row, "Type", PyNone),
     product_line |-> Get(row, "Product Line", PyNone),
     region |-> Get(row, "Region", PyNone),
     probability |-> PyNone,
     forecast_category |-> PyNone,
     is_closed |-> TRUE,
     is_won |-> TRUE]

\* Lines 76-135: one iteration's record, or the first exception in the order
\* the statements and the constructor arguments are evaluated.
MapRow(row, is_pipeline) ==
    LET cd == ParseCloseDate(row)
        fp == ParseFiscalPeriod(row)
        ev == FloatOrZero(row, "Expected Value")
        ei == FloatOrZero(row, "Expected Income")
        am == FloatOrZero(row, "Amount")
        pr == PyInt(Get(row, "Probability", Num(0)), "Probability")
    IN  IF ~cd.ok THEN cd
        ELSE IF ~fp.ok THEN fp
        ELSE IF is_pipeline
        THEN IF ~ev.ok THEN ev
             ELSE IF ~ei.ok THEN ei
             ELSE IF ~am.ok THEN am
             ELSE IF ~pr.ok THEN pr
             ELSE Ok(PipelineOpportunity(row, cd.v, fp.v, ev.v, ei.v, am.v, pr.v))
        ELSE IF ~am.ok THEN am
             ELSE Ok(ClosedWonOpportunity(row, cd.v, fp.v, am.v))

\* --------------------------------------------------------------- Aggregator
\* A summary dict is the sequence of its entries in insertion order, each a
\* bucket with its key.
NewBucket(key) ==
    [key |-> key, count |-> 0, amount |-> 0, expected_value |-> 0,
     expected_income |-> 0, expected_value_gap |-> 0]

HasKey(summary, key) == \E j \in 1..Len(summary) : summary[j].key = key

\* Lines 153-161: the metrics of a record (x or 0 of each); the closed-won
\* metrics dict holds 'amount' only.
Metric(v) == IF v.k = "num" THEN v.n ELSE 0
Metrics(opp, is_pipeline) ==
    IF is_pipeline
    THEN [amount |-> Metric(opp.amount),
          expected_value |-> Metric(opp.expected_value),
          expected_income |-> Metric(opp.expected_income),
          expected_value_gap |-> Metric(opp.expected_value_gap)]
    ELSE [amount |-> Metric(opp.amount), expected_value |-> 0,
          expected_income |-> 0, expected_value_gap |-> 0]

\* Lines 141-148: the bucket of a key that is not in the dict yet.
EnsureKey(summary, key) ==
    IF HasKey(summary, key) THEN summary ELSE Append(summary, NewBucket(key))

\* A bucket that keeps the metrics of the last record instead of adding them.
AddToBucketOverwrite(summary, key, metrics) ==
    [j \in 1..Len(summary) |->
        IF summary[j].key = key
        THEN [summary[j] EXCEPT
                !.count = @ + 1,
                !.amount = metrics.amount,
                !.expected_value = metrics.expected_value,
                !.expected_income = metrics.expected_income,
                !.expected_value_gap = metrics.expected_value_gap]
        ELSE summary[j]]

\* Lines 149-151: the key's bucket counts the record and adds its metrics.
AddToBucket(summary, key, metrics) ==
    [j \in 1..Len(summary) |->
        IF summary[j].key = key
        THEN [summary[j] EXCEPT
                !.count = @ + 1,
                !.amount = @ + metrics.amount,
                !.expected_value = @ + metrics.expected_value,
                !.expected_income = @ + metrics.expected_income,
                !.expected_value_gap = @ + metrics.expected_value_gap]
        ELSE summary[j]]

\* An update_summary that leaves out the records whose key is None.
UpdateSummarySkipNone(summary, key, metrics) ==
    IF key = PyNone THEN summary
    ELSE AddToBucket(EnsureKey(summary, key), key, metrics)

\* Lines 140-151: update_summary.
UpdateSummary(summary, key, metrics) ==
    AddToBucket(EnsureKey(summary, key), key, metrics)

\* A region key without the fallback.
RegionKeyNoFallback(opp) == opp.region

\* Lines 163-165: the three grouping keys of a record.
StageKey(opp) == opp.stage_name
RegionKey(opp) == PyOr(opp.region, Str(Unknown))
OwnerKey(opp) == PyOr(opp.owner_name, Str(Unknown))

RECURSIVE SumAmounts(_)
\* Line 170: sum(opp.amount or 0 for opp in opportunities)
SumAmounts(opps) ==
    IF opps = << >> THEN 0
    ELSE Metric(opps[1].amount) + SumAmounts(Tail(opps))

\* ----------------------------------------------------------------- Exporter
\* The characters of the model's strings in code point order.
CodePoints ==
    <<" ", "$", ",", "-", ".", "/", "0", "1", "2", "3", "4", "5", "6", "7",
      "8", "9", ":", "A", "B", "C", "D", "E", "N", "O", "P", "Q", "T", "U",
      "W", "a", "b", "c", "d", "e", "g", "i", "k", "l", "n", "o", "p", "r",
      "s", "t", "w">>
Ord(c) == IndexOf(CodePoints, c)

RECURSIVE StrLess(_, _)
\* a < b on str: lexicographic by code point.
StrLess(a, b) ==
    CASE b = << >> -> FALSE
      [] a = << >> -> TRUE
      [] Ord(a[1]) # Ord(b[1]) -> Ord(a[1]) < Ord(b[1])
      [] OTHER -> StrLess(Tail(a), Tail(b))

DigitChar(n) == CodePoints[7 + n]
\* n as two and as four decimal digits.
Pad2(n) == <<DigitChar(n \div 10), DigitChar(n % 10)>>
Pad4(n) == Pad2(n \div 100) \o Pad2(n % 100)

\* A date written month first, as in the report's second format.
MdyFormat(d) ==
    Pad2(d.m) \o <<"/">> \o Pad2(d.d) \o <<"/">> \o Pad4(d.y)

\* datetime.isoformat() of a date at midnight.
IsoFormat(d) ==
    Pad4(d.y) \o <<"-">> \o Pad2(d.m) \o <<"-">> \o Pad2(d.d)
        \o <<"T", "0", "0", ":", "0", "0", ":", "0", "0">>

\* opportunity.py lines 52-79: Opportunity.to_dict, one row of the frame.
ToDict(opp) ==
    [opp EXCEPT !.close_date = IF Truthy(@) THEN Str(IsoFormat(@)) ELSE PyNone]

\* An order that ignores the direction asked for.
KeyBeforeAscending(a, b, ascending) ==
    /\ a.k # "none"
    /\ \/ b.k = "none"
       \/ IF a.k = "str" THEN StrLess(a.s, b.s) ELSE a.n < b.n

\* Order of two values of a sort column: missing values go last whatever the
\* direction (na_position='last').
ValueLess(a, b) == IF a.k = "str" THEN StrLess(a.s, b.s) ELSE a.n < b.n
KeyBefore(a, b, ascending) ==
    /\ a.k # "none"
    /\ \/ b.k = "none"
       \/ IF ascending THEN ValueLess(a, b) ELSE ValueLess(b, a)

\* Lines 195-196: whether row a sorts strictly before row b in a pipeline
\* export.
PipelineBefore(a, b) ==
    \/ KeyBefore(a.fiscal_year, b.fiscal_year, TRUE)
    \/ /\ a.fiscal_year = b.fiscal_year
       /\ \/ KeyBefore(a.fiscal_quarter, b.fiscal_quarter, TRUE)
          \/ /\ a.fiscal_quarter = b.fiscal_quarter
             /\ KeyBefore(a.expected_value_gap, b.expected_value_gap, FALSE)

\* Lines 199-200: the same for a closed-won export.
ClosedWonBefore(a, b) ==
    \/ KeyBefore(a.close_date, b.close_date, TRUE)
    \/ /\ a.close_date = b.close_date
       /\ KeyBefore(a.amount, b.amount, FALSE)

Before(a, b, as_pipeline) ==
    IF as_pipeline THEN PipelineBefore(a, b) ELSE ClosedWonBefore(a, b)

\* An insertion that leaves out a row equal to one already there.
InsertUnique(rows, x, as_pipeline) ==
    IF \E j \in 1..Len(rows) : rows[j] = x THEN rows
    ELSE LET later == {j \in 1..Len(rows) :
                          IF as_pipeline THEN PipelineBefore(x, rows[j])
                          ELSE ClosedWonBefore(x, rows[j])}
             at == IF later = {} THEN Len(rows) + 1
                   ELSE CHOOSE j \in later : \A h \in later : j <= h
         IN  SubSeq(rows, 1, at - 1) \o <<x>> \o SubSeq(rows, at, Len(rows))

\* x put into sorted rows behind every row that does not sort after it.
Insert(rows, x, as_pipeline) ==
    LET later == {j \in 1..Len(rows) : Before(x, rows[j], as_pipeline)}
        at == IF later = {} THEN Len(rows) + 1
              ELSE CHOOSE j \in later : \A h \in later : j <= h
    IN  SubSeq(rows, 1, at - 1) \o <<x>> \o SubSeq(rows, at, Len(rows))

RECURSIVE SortValues(_, _)
\* DataFrame.sort_values on several columns: a stable sort.
SortValues(rows, as_pipeline) ==
    IF rows = << >> THEN << >>
    ELSE Insert(SortValues(SubSeq(rows, 1, Len(rows) - 1), as_pipeline),
                rows[Len(rows)], as_pipeline)

\* Line 194: the gap column of a pipeline export is computed again from the
\* two columns of the frame.
WithGapColumn(row) ==
    [row EXCEPT !.expected_value_gap =
                    Num(row.expected_value.n - row.expected_income.n)]

\* Lines 190-200: the frame of the opportunities file.
OpportunitiesFrame(snap, as_pipeline) ==
    LET frame == [j \in 1..Len(snap.opportunities) |-> ToDict(snap.opportunities[j])]
    IN  IF as_pipeline
        THEN SortValues([j \in 1..Len(frame) |-> WithGapColumn(frame[j])], TRUE)
        ELSE SortValues(frame, FALSE)

\* Lines 190-200 raise before anything but the summary file is written: a
\* frame of no rows has no columns (KeyError), and a column of None cannot be
\* subtracted (TypeError).
FrameError(snap, as_pipeline) ==
    IF snap.opportunities = << >> THEN Exc("KeyError", "opportunities", FALSE)
    ELSE IF as_pipeline /\ \E j \in 1..Len(snap.opportunities) :
                \/ snap.opportunities[j].expected_value.k # "num"
                \/ snap.opportunities[j].expected_income.k # "num"
    THEN Exc("TypeError", "expected_value", FALSE)
    ELSE PyNone

\* str(key) inside the f-strings of pipeline_snapshot.py lines 37-45 (the
\* grouping keys of the model are str or None).
KeyText(key) == IF key.k = "str" THEN key.s ELSE <<"N", "o", "n", "e">>

\* d[name] = value on a dict kept as the sequence of its items.
DictSet(d, name, value) ==
    IF \E j \in 1..Len(d) : d[j].name = name
    THEN [j \in 1..Len(d) |-> IF d[j].name = name
                               THEN [name |-> name, value |-> value] ELSE d[j]]
    ELSE Append(d, [name |-> name, value |-> value])

RECURSIVE SummaryColumns(_, _, _, _)
\* The {prefix}_{key}_{metric} items of one dict comprehension.
SummaryColumns(d, summary, prefix, metric) ==
    IF summary = << >> THEN d
    ELSE SummaryColumns(
            DictSet(d, prefix \o KeyText(summary[1].key) \o <<"_">> \o metric,
                    IF metric = <<"a", "m", "o", "u", "n", "t">>
                    THEN summary[1].amount ELSE summary[1].count),
            Tail(summary), prefix, metric)

\* pipeline_snapshot.py lines 27-46: PipelineSnapshot.to_dict, the one row of
\* the summary file.
SnapshotToDict(snap) ==
    LET amount == <<"a", "m", "o", "u", "n", "t">>
        count == <<"c", "o", "u", "n", "t">>
        stage == <<"s", "t", "a", "g", "e", "_">>
        region == <<"r", "e", "g", "i", "o", "n", "_">>
    IN  [total_amount |-> snap.total_amount,
         total_count |-> snap.total_count,
         report_id |-> snap.report_id,
         report_name |-> snap.report_name,
         columns |->
            SummaryColumns(
              SummaryColumns(
                SummaryColumns(
                  SummaryColumns(<< >>, snap.stage_summary, stage, amount),
                  snap.stage_summary, stage, count),
                snap.region_summary, region, amount),
              snap.region_summary, region, count)]

\* Lines 220-226: the temporal frame.  groupby drops the rows with a missing
\* key and sorts the groups by key; 'count' counts the non-missing values.
TemporalKeys(frame) ==
    {<<frame[j].fiscal_year, frame[j].fiscal_quarter>> :
        j \in {h \in 1..Len(frame) : /\ frame[h].fiscal_year.k # "none"
                                     /\ frame[h].fiscal_quarter.k # "none"}}

TemporalKeyLess(a, b) ==
    \/ ValueLess(a[1], b[1])
    \/ a[1] = b[1] /\ ValueLess(a[2], b[2])

RECURSIVE SortedKeys(_)
SortedKeys(keys) ==
    IF keys = {} THEN << >>
    ELSE LET least == CHOOSE x \in keys : \A y \in keys \ {x} : TemporalKeyLess(x, y)
         IN  <<least>> \o SortedKeys(keys \ {least})

\* The rows of the frame in the group `key`.
GroupRows(frame, key) ==
    SelectSeq(frame, LAMBDA r : <<r.fiscal_year, r.fiscal_quarter>> = key)

TemporalFrame(frame) ==
    LET keys == SortedKeys(TemporalKeys(frame))
    IN  [j \in 1..Len(keys) |->
            LET group == GroupRows(frame, keys[j])
            IN  [fiscal_year |-> keys[j][1],
                 fiscal_quarter |-> keys[j][2],
                 total_amount |-> SumAmounts(group),
                 deal_count |->
                    Cardinality({h \in 1..Len(group) : group[h].amount.k # "none"}),
                 opportunity_count |->
                    Cardinality({h \in 1..Len(group) : group[h].id.k # "none"})]]

\* Lines 182-183 and the f-strings of lines 187-227: a file name.
FileName(as_pipeline, part, timestamp) ==
    [prefix |-> IF as_pipeline THEN "pipeline" ELSE "closed_won",
     part |-> part, timestamp |-> timestamp]

\* to_csv(path): the file is created or overwritten.
ToCsv(dir, name, rows) ==
    [n \in DOMAIN dir \cup {name} |-> IF n = name THEN rows ELSE dir[n]]

\* ------------------------------------------------------------------ inputs
\* A row with every cell present and well-formed (the upstream gap cell
\* disagrees with Expected Value - Expected Income).
FullRow ==
    [label \in Labels |->
        CASE label = "Opportunity ID" -> Str(<<"0", "0", "6", "A">>)
          [] label = "Opportunity Name" -> Str(<<"D", "e", "a", "l", " ", "A">>)
          [] label = "Stage" -> Str(<<"N", "e", "g", "o", "t", "i", "a", "t", "i", "o", "n">>)
          [] label = "Amount" -> Num(10000)
          [] label = "Expected Value" -> Num(50000)
          [] label = "Expected Income" -> Num(20000)
          [] label = "Expected Value Gap" -> Num(99900)
          [] label = "Close Date" -> Str(<<"2", "0", "2", "4", "-", "0", "3", "-", "1", "5">>)
          [] label = "Fiscal Period" -> Str(<<"Q", "1", " ", "2", "0", "2", "4">>)
          [] label = "Account ID" -> Str(<<"0", "0", "1", "A">>)
          [] label = "Owner ID" -> Str(<<"0", "0", "5", "A">>)
          [] label = "Owner Name" -> Str(<<"A", "n", "n">>)
          [] label = "Type" -> Str(<<"N", "e", "w">>)
          [] label = "Product Line" -> Str(<<"C", "o", "r", "e">>)
          [] label = "Region" -> Str(<<"W", "e", "s", "t">>)
          [] label = "Probability" -> Num(5000)
          [] label = "Forecast Category" -> Str(<<"P", "i", "p", "e", "l", "i", "n", "e">>)]

\* A second well-formed row: numeric strings, the other date format, absent
\* and null optional cells.
OtherRow ==
    [label \in Labels |->
        CASE label = "Opportunity ID" -> Str(<<"0", "0", "6", "B">>)
          [] label = "Opportunity Name" -> Str(<<"D", "e", "a", "l", " ", "B">>)
          [] label = "Stage" -> Str(<<"P", "r", "o", "s", "p", "e", "c", "t", "i", "n", "g">>)
          [] label = "Amount" -> Str(<<"2", "5", "0", ".", "5">>)
          [] label = "Expected Value" -> Num(10000)
          [] label = "Expected Income" -> Str(<<"4", "0", "0">>)
          [] label = "Expected Value Gap" -> Absent
          [] label = "Close Date" -> Str(<<"0", "3", "/", "2", "0", "/", "2", "0", "2", "4">>)
          [] label = "Fiscal Period" -> Str(<<"Q", "2", " ", "2", "0", "2", "4">>)
          [] label = "Account ID" -> Str(<<"0", "0", "1", "B">>)
          [] label = "Owner ID" -> Str(<<"0", "0", "5", "B">>)
          [] label = "Owner Name" -> Str(<<"B", "o", "b">>)
          [] label = "Type" -> PyNone
          [] label = "Product Line" -> Absent
          [] label = "Region" -> Str(<<"E", "a", "s", "t">>)
          [] label = "Probability" -> Str(<<"7", "5">>)
          [] label = "Forecast Category" -> Absent]

\* A row of a report that has none of the columns.
SparseRow == [label \in Labels |-> Absent]

\* FullRow with one cell replaced.
With(label, cell) == [FullRow EXCEPT ![label] = cell]

\* The rows a report of the model is made of.
SampleRows ==
    {FullRow, OtherRow, SparseRow,
     With("Amount", Str(<<"$", "1", ",", "2", "3", "4", ".", "5", "6">>)),
     With("Amount", Str(<<"a", "b", "c">>)),
     With("Amount", PyNone),
     With("Close Date", Str(<<"0", "3", "/", "1", "5", "/", "2", "0", "2", "4">>)),
     With("Close Date", Str(<<"n", "o", "t", "-", "a", "-", "d", "a", "t", "e">>)),
     With("Close Date", Str(<<>>)),
     With("Fiscal Period", PyNone),
     With("Region", PyNone),
     With("Region", Str(<<"U", "n", "k", "n", "o", "w", "n">>)),
     With("Expected Value", PyNone),
     With("Probability", PyNone),
     With("Close Date", Str(<<"0", "3", "/", "1", "5", "/", "2", "0", "2", "4", " ", "0", "9", ":", "3", "0">>))}

RECURSIVE SeqsUpTo(_, _)
\* The sequences over S of length at most n.
SeqsUpTo(S, n) ==
    IF n = 0 THEN {<< >>}
    ELSE LET shorter == SeqsUpTo(S, n - 1)
         IN  shorter \cup {Append(q, x) : q \in {r \in shorter : Len(r) = n - 1}, x \in S}

ReportId == Str(<<"0", "0", "O", "1">>)
ReportName == Str(<<"P", "i", "p", "e">>)

\* Totals a caller may put into a ReportData it builds itself, whatever the
\* rows are.
CallerTotals ==
    {[total_records |-> 0, total_amount |-> 0],
     [total_records |-> MaxRows + 1, total_amount |-> 12345]}

\* ------------------------------------------------------------------- state
VARIABLES
    raw_data,          \* get_report_data's list of row mappings (line 47)
    report_data,       \* the ReportData handed to create_pipeline_snapshot
    is_pipeline,       \* create_pipeline_snapshot's kind flag
    pc,                \* where the run is
    i,                 \* index of the row the loop of line 75 is at
    opportunities,     \* create_pipeline_snapshot's locals (lines 70-73)
    stage_summary,
    region_summary,
    owner_summary,
    snapshot,          \* the PipelineSnapshot returned, None before
    error,             \* the exception that escaped, None if none
    now,               \* datetime.now(), in whole seconds
    files,             \* the output directory: file name -> rows written
    calls,             \* the export_to_csv calls of the caller's threads
    payload,           \* what sf.restful answers for the report
    df,                \* the DataFrame of pipeline_report.py
    manager,           \* a SalesforceDataManager and its caller
    gui                \* the SalesforceGUI: workers, Tk event queue, widgets

vars == <<raw_data, report_data, is_pipeline, pc, i, opportunities,
          stage_summary, region_summary, owner_summary, snapshot, error,
          now, files, calls, payload, df, manager, gui>>

\* What the report service and its exporter do not touch.
apart == <<payload, df, manager, gui>>

\* Nothing but the report service is in use.
ApartIdle ==
    /\ payload = PyNone
    /\ df = PyNone
    /\ manager = PyNone
    /\ gui = PyNone

disk == <<now, files, calls>>

\* The threads of the caller that call export_to_csv.
Calls == {"first", "second"}

\* A call that has not been entered: its locals (lines 182-183), the file it
\* writes next, the paths it has written and the exception that ended it.
NoCall ==
    [at |-> "idle", as_pipeline |-> TRUE, timestamp |-> 0, wrote |-> {},
     exc |-> PyNone]

locals == <<opportunities, stage_summary, region_summary, owner_summary>>

Init ==
    /\ raw_data \in SeqsUpTo(SampleRows, MaxRows)
    /\ report_data = PyNone
    /\ is_pipeline = TRUE
    /\ pc = "rows"
    /\ i = 0
    /\ opportunities = << >>
    /\ stage_summary = << >>
    /\ region_summary = << >>
    /\ owner_summary = << >>
    /\ snapshot = PyNone
    /\ error = PyNone
    /\ now = 0
    /\ files = << >>
    /\ calls = [c \in Calls |-> NoCall]
    /\ ApartIdle

RECURSIVE ParserTotalAmount(_)
\* Line 65: sum(float(row.get('Amount', 0) or 0) for row in raw_data); the
\* first conversion that raises ends it.
ParserTotalAmount(rows) ==
    IF rows = << >> THEN [ok |-> TRUE, n |-> 0, row |-> 0]
    ELSE LET head == ParserTotalAmount(SubSeq(rows, 1, Len(rows) - 1))
             last == FloatOrZero(rows[Len(rows)], "Amount")
         IN  IF ~head.ok THEN head
             ELSE IF ~last.ok
             THEN [ok |-> FALSE, exc |-> last.exc, row |-> Len(rows)]
             ELSE [ok |-> TRUE, n |-> head.n + last.v.n, row |-> 0]

\* Lines 56-66: get_report_data builds the ReportData of the rows it has
\* collected, or a conversion of an Amount cell raises.
GetReportData ==
    /\ pc = "rows"
    /\ LET total == ParserTotalAmount(raw_data)
       IN  IF total.ok
           THEN /\ report_data' = [report_id |-> ReportId,
                                   report_name |-> ReportName,
                                   raw_data |-> raw_data,
                                   total_records |-> Len(raw_data),
                                   total_amount |-> total.n]
                /\ pc' = "report"
                /\ error' = error
           ELSE /\ error' = [exc |-> total.exc, row |-> total.row,
                             in |-> "get_report_data"]
                /\ pc' = "raised"
                /\ report_data' = report_data
    /\ UNCHANGED apart
    /\ UNCHANGED <<raw_data, is_pipeline, i, locals, snapshot, disk>>

\* report_data.py lines 11-29: a caller builds the ReportData itself, with
\* totals of its own.
NewReportData ==
    /\ pc = "rows"
    /\ \E totals \in CallerTotals :
          report_data' = [report_id |-> ReportId,
                          report_name |-> ReportName,
                          raw_data |-> raw_data,
                          total_records |-> totals.total_records,
                          total_amount |-> totals.total_amount]
    /\ pc' = "report"
    /\ UNCHANGED apart
    /\ UNCHANGED <<raw_data, is_pipeline, i, locals, snapshot, error, disk>>

\* Lines 68-73: create_pipeline_snapshot(report_data, kind) is entered.
CreatePipelineSnapshot ==
    /\ pc = "report"
    /\ is_pipeline' \in BOOLEAN
    /\ pc' = "loop"
    /\ i' = 1
    /\ opportunities' = << >>
    /\ stage_summary' = << >>
    /\ region_summary' = << >>
    /\ owner_summary' = << >>
    /\ UNCHANGED apart
    /\ UNCHANGED <<raw_data, report_data, snapshot, error, disk>>

\* A loop that skips a row it cannot map and goes on with the next one.
MapRowStepSkipBadRow ==
    /\ pc = "loop"
    /\ i <= Len(report_data.raw_data)
    /\ LET r == MapRow(report_data.raw_data[i], is_pipeline)
           metrics == Metrics(r.v, is_pipeline)
       IN  IF r.ok
           THEN /\ opportunities' = Append(opportunities, r.v)
                /\ stage_summary' = UpdateSummary(stage_summary, StageKey(r.v), metrics)
                /\ region_summary' = UpdateSummary(region_summary, RegionKey(r.v), metrics)
                /\ owner_summary' = UpdateSummary(owner_summary, OwnerKey(r.v), metrics)
           ELSE UNCHANGED locals
    /\ i' = i + 1
    /\ UNCHANGED apart
    /\ UNCHANGED <<raw_data, report_data, is_pipeline, pc, snapshot, error, disk>>

\* A loop whose close_date is not reset at the top of the iteration: a row
\* without a Close Date gets the date of the record before it.
MapRowStepCarry ==
    /\ pc = "loop"
    /\ i <= Len(report_data.raw_data)
    /\ LET r == MapRow(report_data.raw_data[i], is_pipeline)
           rec == IF r.v.close_date = PyNone /\ opportunities # << >>
                  THEN [r.v EXCEPT !.close_date =
                                      opportunities[Len(opportunities)].close_date]
                  ELSE r.v
           metrics == Metrics(rec, is_pipeline)
       IN  IF r.ok
           THEN /\ opportunities' = Append(opportunities, rec)
                /\ stage_summary' = UpdateSummary(stage_summary, StageKey(rec), metrics)
                /\ region_summary' = UpdateSummary(region_summary, RegionKey(rec), metrics)
                /\ owner_summary' = UpdateSummary(owner_summary, OwnerKey(rec), metrics)
                /\ i' = i + 1
                /\ UNCHANGED <<pc, error>>
           ELSE /\ error' = [exc |-> r.exc, row |-> i,
                             in |-> "create_pipeline_snapshot"]
                /\ pc' = "raised"
                /\ UNCHANGED <<i, locals>>
    /\ UNCHANGED apart
    /\ UNCHANGED <<raw_data, report_data, is_pipeline, snapshot, disk>>

\* Lines 75-165: one iteration of the loop.  An exception leaves the function
\* at once: nothing is returned and no later row is looked at.
MapRowStep ==
    /\ pc = "loop"
    /\ i <= Len(report_data.raw_data)
    /\ LET r == MapRow(report_data.raw_data[i], is_pipeline)
           metrics == Metrics(r.v, is_pipeline)
       IN  IF r.ok
           THEN /\ opportunities' = Append(opportunities, r.v)
                /\ stage_summary' = UpdateSummary(stage_summary, StageKey(r.v), metrics)
                /\ region_summary' = UpdateSummary(region_summary, RegionKey(r.v), metrics)
                /\ owner_summary' = UpdateSummary(owner_summary, OwnerKey(r.v), metrics)
                /\ i' = i + 1
                /\ UNCHANGED <<pc, error>>
           ELSE /\ error' = [exc |-> r.exc, row |-> i,
                             in |-> "create_pipeline_snapshot"]
                /\ pc' = "raised"
                /\ UNCHANGED <<i, locals>>
    /\ UNCHANGED apart
    /\ UNCHANGED <<raw_data, report_data, is_pipeline, snapshot, disk>>

\* Totals copied from the source report.
SnapshotTotalCountCopied(rd, opps) == rd.total_records

\* Lines 170-171: the totals of the snapshot.
SnapshotTotalAmount(rd, opps) == SumAmounts(opps)
SnapshotTotalCount(rd, opps) == Len(opps)

\* Lines 167-177: the loop is over and the snapshot is returned.
ReturnSnapshot ==
    /\ pc = "loop"
    /\ i > Len(report_data.raw_data)
    /\ snapshot' = [opportunities |-> opportunities,
                    total_amount |-> SnapshotTotalAmount(report_data, opportunities),
                    total_count |-> SnapshotTotalCount(report_data, opportunities),
                    stage_summary |-> stage_summary,
                    region_summary |-> region_summary,
                    owner_summary |-> owner_summary,
                    report_id |-> report_data.report_id,
                    report_name |-> report_data.report_name]
    /\ pc' = "returned"
    /\ UNCHANGED apart
    /\ UNCHANGED <<raw_data, report_data, is_pipeline, i, locals, error, disk>>

\* Lines 179-227: export_to_csv(snapshot, output_path, kind).  The summary
\* file is written first; an exception while the opportunities frame is
\* built leaves only that file behind.
ExportToCsv ==
    /\ pc = "returned"
    /\ \E as_pipeline \in BOOLEAN :
        LET summary == ToCsv(files, FileName(as_pipeline, "summary", now),
                             <<SnapshotToDict(snapshot)>>)
            frame == OpportunitiesFrame(snapshot, as_pipeline)
            four == ToCsv(ToCsv(ToCsv(summary,
                        FileName(as_pipeline, "opportunities", now), frame),
                        FileName(as_pipeline, "stages", now), snapshot.stage_summary),
                        FileName(as_pipeline, "regions", now), snapshot.region_summary)
        IN  IF FrameError(snapshot, as_pipeline) # PyNone
            THEN /\ files' = summary
                 /\ error' = [exc |-> FrameError(snapshot, as_pipeline), row |-> 0,
                              in |-> "export_to_csv"]
                 /\ pc' = "raised"
            ELSE /\ files' = IF as_pipeline THEN four
                             ELSE ToCsv(four, FileName(FALSE, "temporal", now),
                                        TemporalFrame(frame))
                 /\ error' = error
                 /\ pc' = "exported"
    /\ UNCHANGED apart
    /\ UNCHANGED <<raw_data, report_data, is_pipeline, i, locals, snapshot, now,
                   calls>>

Next ==
    \/ GetReportData
    \/ NewReportData
    \/ CreatePipelineSnapshot
    \/ MapRowStep
    \/ ReturnSnapshot
    \/ ExportToCsv

Spec == Init /\ [][Next]_vars

\* ------------------------------------------------- repeated calls, exports
\* Longest raw_data list of the reports that are exported.
MaxExportRows == 3

\* FullRow's period and close date with a larger amount and a larger gap, and
\* null Region and Owner Name cells.
BiggerRow ==
    [FullRow EXCEPT !["Opportunity ID"] = Str(<<"0", "0", "6", "C">>),
                    !["Amount"] = Num(30000),
                    !["Expected Income"] = Num(0),
                    !["Region"] = PyNone,
                    !["Owner Name"] = PyNone]

\* An earlier quarter and close date (in the second format), and empty
\* Region and Owner Name cells.
EarlierRow ==
    [FullRow EXCEPT !["Opportunity ID"] = Str(<<"0", "0", "6", "D">>),
                    !["Close Date"] = Str(<<"1", "2", "/", "0", "1", "/", "2", "0", "2", "3">>),
                    !["Fiscal Period"] = Str(<<"Q", "4", " ", "2", "0", "2", "3">>),
                    !["Region"] = Str(<< >>),
                    !["Owner Name"] = Str(<< >>)]

\* OtherRow with the text 'Unknown' as its Region and its Owner Name.
LiteralRow ==
    [OtherRow EXCEPT !["Region"] = Str(Unknown), !["Owner Name"] = Str(Unknown)]

ExportRows == {FullRow, BiggerRow, EarlierRow, LiteralRow, SparseRow}

InitExport ==
    /\ raw_data \in SeqsUpTo(ExportRows, MaxExportRows)
    /\ report_data = PyNone
    /\ is_pipeline = TRUE
    /\ pc = "rows"
    /\ i = 0
    /\ opportunities = << >>
    /\ stage_summary = << >>
    /\ region_summary = << >>
    /\ owner_summary = << >>
    /\ snapshot = PyNone
    /\ error = PyNone
    /\ now = 0
    /\ files = << >>
    /\ calls = [c \in Calls |-> NoCall]
    /\ ApartIdle

\* Lines 68-73: create_pipeline_snapshot is called again on the ReportData of
\* an earlier call, whose snapshot the caller still holds.
CreatePipelineSnapshotAgain ==
    /\ pc = "returned"
    /\ is_pipeline' \in BOOLEAN
    /\ pc' = "loop"
    /\ i' = 1
    /\ opportunities' = << >>
    /\ stage_summary' = << >>
    /\ region_summary' = << >>
    /\ owner_summary' = << >>
    /\ UNCHANGED apart
    /\ UNCHANGED <<raw_data, report_data, snapshot, error, disk>>

NextExport ==
    \/ GetReportData
    \/ CreatePipelineSnapshot
    \/ MapRowStep
    \/ ReturnSnapshot
    \/ CreatePipelineSnapshotAgain
    \/ ExportToCsv

SpecExport == InitExport /\ [][NextExport]_vars

\* ------------------------------------------- export_to_csv call by call
\* The last second of the clock.
MaxNow == 1

\* The reports the threads export the snapshot of.
ThreadReports == {<< >>, <<FullRow>>, <<FullRow, EarlierRow>>}

InitThreads ==
    /\ raw_data \in ThreadReports
    /\ report_data = PyNone
    /\ is_pipeline = TRUE
    /\ pc = "rows"
    /\ i = 0
    /\ opportunities = << >>
    /\ stage_summary = << >>
    /\ region_summary = << >>
    /\ owner_summary = << >>
    /\ snapshot = PyNone
    /\ error = PyNone
    /\ now = 0
    /\ files = << >>
    /\ calls = [c \in Calls |-> NoCall]
    /\ ApartIdle

\* The wall clock goes on by a second.
Tick ==
    /\ now < MaxNow
    /\ now' = now + 1
    /\ UNCHANGED apart
    /\ UNCHANGED <<raw_data, report_data, is_pipeline, pc, i, locals, snapshot,
                   error, files, calls>>

\* Lines 182-183: a thread enters export_to_csv with the snapshot; timestamp
\* is the clock's second at that moment.
ExportEnter(c) ==
    /\ pc = "returned"
    /\ calls[c].at = "idle"
    /\ \E as_pipeline \in BOOLEAN :
          calls' = [calls EXCEPT ![c] = [NoCall EXCEPT !.at = "summary",
                                                      !.as_pipeline = as_pipeline,
                                                      !.timestamp = now]]
    /\ UNCHANGED apart
    /\ UNCHANGED <<raw_data, report_data, is_pipeline, pc, i, locals, snapshot,
                   error, now, files>>

\* A timestamp taken again at every write.
TimestampAtWrite(c) == now

\* The timestamp in the file names of a call: the local of line 182.
Timestamp(c) == calls[c].timestamp

\* The file a call writes after `part` (line 219: the temporal file is for
\* closed-won only).
NextPart(part, as_pipeline) ==
    CASE part = "summary" -> "opportunities"
      [] part = "opportunities" -> "stages"
      [] part = "stages" -> "regions"
      [] part = "regions" -> IF as_pipeline THEN "done" ELSE "temporal"
      [] part = "temporal" -> "done"

\* The frame each to_csv of lines 187-227 writes.
Content(part, as_pipeline) ==
    CASE part = "summary" -> <<SnapshotToDict(snapshot)>>
      [] part = "opportunities" -> OpportunitiesFrame(snapshot, as_pipeline)
      [] part = "stages" -> snapshot.stage_summary
      [] part = "regions" -> snapshot.region_summary
      [] part = "temporal" -> TemporalFrame(OpportunitiesFrame(snapshot, FALSE))

\* Lines 186-227, one to_csv at a time: the call writes its next file, or
\* building the opportunities frame raises and the call ends.
ExportWrite(c) ==
    /\ calls[c].at \in {"summary", "opportunities", "stages", "regions", "temporal"}
    /\ LET part == calls[c].at
           kind == calls[c].as_pipeline
           name == FileName(kind, part, Timestamp(c))
       IN  IF part = "opportunities" /\ FrameError(snapshot, kind) # PyNone
           THEN /\ calls' = [calls EXCEPT ![c].at = "failed",
                                          ![c].exc = FrameError(snapshot, kind)]
                /\ files' = files
           ELSE /\ files' = ToCsv(files, name, Content(part, kind))
                /\ calls' = [calls EXCEPT ![c].at = NextPart(part, kind),
                                          ![c].wrote = @ \cup {name}]
    /\ UNCHANGED apart
    /\ UNCHANGED <<raw_data, report_data, is_pipeline, pc, i, locals, snapshot,
                   error, now>>

NextThreads ==
    \/ GetReportData
    \/ CreatePipelineSnapshot
    \/ MapRowStep
    \/ ReturnSnapshot
    \/ Tick
    \/ \E c \in Calls : ExportEnter(c)
    \/ \E c \in Calls : ExportWrite(c)

SpecThreads == InitThreads /\ [][NextThreads]_vars

\* ------------------------------------------------- the report's payload
\* Most data cells in a row of the fact map.
MaxCells == 2

\* The answers of the two requests.  A group of the fact map has a 'rows'
\* entry or not; the describe answer holds the columns at the top level
\* (read by the service) and inside reportMetadata (read by
\* pipeline_report.py); `lacks` names the keys an answer does not have, and
\* `found` is whether the report exists.
Payloads ==
    LET values == {Num(10000), PyNone, Str(<<"W", "e", "s", "t">>)}
        WithRows(rows) == [has_rows |-> TRUE, rows |-> rows]
        groups ==
            {[has_rows |-> FALSE, rows |-> << >>], WithRows(<< >>),
             WithRows(<< <<Num(10000)>>, <<PyNone>> >>)}
                \cup {WithRows(<<cells>>) : cells \in SeqsUpTo(values, MaxCells)}
        Answer(columns, factMap) ==
            [found |-> TRUE, lacks |-> {}, detailColumns |-> columns,
             factMap |-> factMap]
        small == Answer(<<"Amount">>, << WithRows(<< <<Num(10000)>> >>) >>)
    IN  {Answer(columns, factMap) :
            columns \in {<<"Amount">>, <<"Stage", "Amount">>, <<"Stage", "Region">>},
            factMap \in SeqsUpTo(groups, 2)}
        \cup {[small EXCEPT !.found = FALSE]}
        \cup {[small EXCEPT !.lacks = {part}] :
                 part \in {"reportMetadata", "detailColumns",
                           "reportMetadata.detailColumns", "factMap"}}

\* The rows of the first group only.
DataCellsFirstGroup(factMap) ==
    IF factMap = << >> \/ ~factMap[1].has_rows THEN << >> ELSE factMap[1].rows

RECURSIVE DataCells(_)
\* Lines 48-50: the dataCells of the rows of the groups that have 'rows', in
\* the order the loops visit them.
DataCells(factMap) ==
    IF factMap = << >> THEN << >>
    ELSE (IF factMap[1].has_rows THEN factMap[1].rows ELSE << >>)
            \o DataCells(Tail(factMap))

RECURSIVE RowItems(_, _, _)
\* Lines 51-53: row_data after the first n cells, every cell under the label
\* of its position.
RowItems(columns, cells, n) ==
    IF n = 0 THEN << >>
    ELSE DictSet(RowItems(columns, cells, n - 1), columns[n], cells[n])

\* f"Column_{i}" of pipeline_report.py line 99, i counting from 0.
ColumnName(n) ==
    CASE n = 0 -> "Column_0" [] n = 1 -> "Column_1" [] n = 2 -> "Column_2"
      [] n = 3 -> "Column_3" [] n = 4 -> "Column_4" [] OTHER -> "Column_5"

RECURSIVE LegacyRowItems(_, _, _)
\* pipeline_report.py lines 97-100: the same with a name made up for a cell
\* past the last column.
LegacyRowItems(columns, cells, n) ==
    IF n = 0 THEN << >>
    ELSE DictSet(LegacyRowItems(columns, cells, n - 1),
                 IF n <= Len(columns) THEN columns[n] ELSE ColumnName(n - 1),
                 cells[n])

\* A dict of cells as a row: the labels it lacks are absent.
AsRow(items) ==
    [label \in Labels \cup {items[j].name : j \in 1..Len(items)} |->
        IF \E j \in 1..Len(items) : items[j].name = label
        THEN items[CHOOSE j \in 1..Len(items) : items[j].name = label].value
        ELSE Absent]

\* Lines 47-54: raw_data, or the IndexError of columns[i] in the first row
\* that has more cells than there are columns.
CollectRows(columns, factMap) ==
    LET cells == DataCells(factMap)
        long == {j \in 1..Len(cells) : Len(cells[j]) > Len(columns)}
    IN  IF long # {}
        THEN [ok |-> FALSE, exc |-> Exc("IndexError", "columns", FALSE),
              row |-> CHOOSE j \in long : \A h \in long : j <= h]
        ELSE [ok |-> TRUE,
              v |-> [j \in 1..Len(cells) |->
                        AsRow(RowItems(columns, cells[j], Len(cells[j])))]]

\* A parser that takes an answer without factMap for a report without rows.
ServiceRowsLenient(answer) ==
    IF ~answer.found
    THEN [ok |-> FALSE, exc |-> Exc("SalesforceResourceNotFound", "report_id", FALSE), row |-> 0]
    ELSE IF "reportMetadata" \in answer.lacks
    THEN [ok |-> FALSE, exc |-> Exc("KeyError", "reportMetadata", FALSE), row |-> 0]
    ELSE IF "detailColumns" \in answer.lacks
    THEN [ok |-> FALSE, exc |-> Exc("KeyError", "detailColumns", FALSE), row |-> 0]
    ELSE IF "factMap" \in answer.lacks
    THEN [ok |-> TRUE, v |-> << >>]
    ELSE CollectRows(answer.detailColumns, answer.factMap)

\* Lines 30-54: the rows of get_report_data, or the first exception: the
\* request fails for a report that does not exist, and a missing part of
\* an answer is a KeyError.
ServiceRows(answer) ==
    IF ~answer.found
    THEN [ok |-> FALSE, exc |-> Exc("SalesforceResourceNotFound", "report_id", FALSE), row |-> 0]
    ELSE IF "reportMetadata" \in answer.lacks
    THEN [ok |-> FALSE, exc |-> Exc("KeyError", "reportMetadata", FALSE), row |-> 0]
    ELSE IF "detailColumns" \in answer.lacks
    THEN [ok |-> FALSE, exc |-> Exc("KeyError", "detailColumns", FALSE), row |-> 0]
    ELSE IF "factMap" \in answer.lacks
    THEN [ok |-> FALSE, exc |-> Exc("KeyError", "factMap", FALSE), row |-> 0]
    ELSE CollectRows(answer.detailColumns, answer.factMap)

InitParser ==
    /\ raw_data = << >>
    /\ report_data = PyNone
    /\ is_pipeline = TRUE
    /\ pc = "payload"
    /\ i = 0
    /\ opportunities = << >>
    /\ stage_summary = << >>
    /\ region_summary = << >>
    /\ owner_summary = << >>
    /\ snapshot = PyNone
    /\ error = PyNone
    /\ now = 0
    /\ files = << >>
    /\ calls = [c \in Calls |-> NoCall]
    /\ payload \in Payloads
    /\ df = PyNone
    /\ manager = PyNone
    /\ gui = PyNone

\* Lines 27-66: get_report_data(report_id) from the two requests to the
\* ReportData, or the exception that escapes.
ParseReport ==
    /\ pc = "payload"
    /\ LET rows == ServiceRows(payload)
           total == ParserTotalAmount(rows.v)
       IN  IF ~rows.ok
           THEN /\ error' = [exc |-> rows.exc, row |-> rows.row,
                             in |-> "get_report_data"]
                /\ pc' = "raised"
                /\ UNCHANGED <<raw_data, report_data>>
           ELSE IF ~total.ok
           THEN /\ error' = [exc |-> total.exc, row |-> total.row,
                             in |-> "get_report_data"]
                /\ pc' = "raised"
                /\ UNCHANGED <<raw_data, report_data>>
           ELSE /\ raw_data' = rows.v
                /\ report_data' = [report_id |-> ReportId,
                                   report_name |-> ReportName,
                                   raw_data |-> rows.v,
                                   total_records |-> Len(rows.v),
                                   total_amount |-> total.n]
                /\ pc' = "report"
                /\ error' = error
    /\ UNCHANGED <<is_pipeline, i, locals, snapshot, disk, apart>>

RECURSIVE FrameColumns(_)
\* pd.DataFrame(rows): the columns are the keys of the dicts in the order
\* they first appear.
FrameColumns(dicts) ==
    IF dicts = << >> THEN << >>
    ELSE LET before == FrameColumns(SubSeq(dicts, 1, Len(dicts) - 1))
             last == dicts[Len(dicts)]
             new == SelectSeq([j \in 1..Len(last) |-> last[j].name],
                              LAMBDA name : \A h \in 1..Len(before) : before[h] # name)
         IN  before \o new

\* pd.DataFrame(rows) of pipeline_report.py line 103: a value is missing
\* where the dict has no such key.
DataFrame(dicts) ==
    LET columns == FrameColumns(dicts)
    IN  [columns |-> columns,
         rows |-> [j \in 1..Len(dicts) |->
                    [name \in {columns[h] : h \in 1..Len(columns)} |->
                        IF \E h \in 1..Len(dicts[j]) : dicts[j][h].name = name
                        THEN dicts[j][CHOOSE h \in 1..Len(dicts[j]) :
                                          dicts[j][h].name = name].value
                        ELSE PyNone]]]

\* pipeline_report.py lines 67-109: get_report_data(sf, report_id).  The
\* columns are read inside reportMetadata, when the answer has one; an
\* answer without factMap gives a frame without rows.
LegacyGetReportData ==
    /\ pc = "payload"
    /\ LET columns == IF "reportMetadata" \in payload.lacks THEN << >>
                      ELSE payload.detailColumns
           factMap == IF "factMap" \in payload.lacks THEN << >>
                      ELSE payload.factMap
           cells == DataCells(factMap)
       IN  IF ~payload.found
           THEN /\ error' = [exc |-> Exc("SalesforceResourceNotFound", "report_id", FALSE),
                             row |-> 0, in |-> "pipeline_report.get_report_data"]
                /\ pc' = "raised"
                /\ df' = df
           ELSE IF "reportMetadata.detailColumns" \in payload.lacks
           THEN /\ error' = [exc |-> Exc("KeyError", "detailColumns", FALSE),
                             row |-> 0, in |-> "pipeline_report.get_report_data"]
                /\ pc' = "raised"
                /\ df' = df
           ELSE /\ df' = DataFrame([j \in 1..Len(cells) |->
                            LegacyRowItems(columns, cells[j], Len(cells[j]))])
                /\ pc' = "frame"
                /\ error' = error
    /\ UNCHANGED <<raw_data, report_data, is_pipeline, i, locals, snapshot,
                   disk, payload, manager, gui>>

NextParser ==
    \/ ParseReport
    \/ LegacyGetReportData

SpecParser == InitParser /\ [][NextParser]_vars

\* ------------------------------------------------ process_pipeline_data
\* pipeline_report.py lines 49-65 and 111-157.  A frame is its column names
\* and its rows; the function changes the frame it is given in place.
MaxFrameRows == 1

NaN == [k |-> "nan"]
NaT == [k |-> "nat"]

ServicesEV == "Opportunity.Services_EV__c"
ExpenseIncome == "Opportunity.Interdivision_Expense_Income__c"
UpstreamGap == "Opportunity.Expected_Value_Minus_Income__c"
GapColumn == "Expected Value Gap"

\* Lines 117-123.
AmountFields ==
    {"AMOUNT", ServicesEV, UpstreamGap, ExpenseIncome,
     "Opportunity.Expected_Monthly_Recurring_Revenue_MRR__c"}

\* Lines 49-65: extract_amount(value).
ExtractAmount(value) ==
    CASE value.k \in {"none", "nan"} -> PyNone
      [] value.k = "num" -> value
      [] value.k = "dict" -> value.amount
      [] value.k = "str" ->
            LET clean_value == SelectSeq(value.s, LAMBDA c : c \notin {"$", ","})
            IN  IF FloatOfStr(clean_value).ok
                THEN Num(FloatOfStr(clean_value).n) ELSE PyNone
      [] OTHER -> PyNone

HasColumn(frame, name) == \E h \in 1..Len(frame.columns) : frame.columns[h] = name

\* Lines 125-129: the amount columns the frame has, made numeric; with
\* errors='coerce' a None becomes NaN.
ConvertAmounts(frame) ==
    [frame EXCEPT !.rows =
        [j \in 1..Len(frame.rows) |->
            [name \in DOMAIN frame.rows[j] |->
                IF name \notin AmountFields THEN frame.rows[j][name]
                ELSE IF ExtractAmount(frame.rows[j][name]).k = "num"
                THEN ExtractAmount(frame.rows[j][name])
                ELSE NaN]]]

\* df[name] = values: a new column goes last, an old one keeps its place.
WithColumn(frame, name, values) ==
    [columns |-> IF HasColumn(frame, name) THEN frame.columns
                 ELSE Append(frame.columns, name),
     rows |-> [j \in 1..Len(frame.rows) |->
                [c \in DOMAIN frame.rows[j] \cup {name} |->
                    IF c = name THEN values[j] ELSE frame.rows[j][c]]]]

\* Lines 132-147: the gap column is computed when the frame has no upstream
\* gap and has both value columns; every other branch prints the sums of
\* the two value columns, and indexing a column the frame lacks raises.
GapStep(frame) ==
    IF ~HasColumn(frame, UpstreamGap)
       /\ HasColumn(frame, ServicesEV) /\ HasColumn(frame, ExpenseIncome)
    THEN Ok(WithColumn(frame, GapColumn,
                [j \in 1..Len(frame.rows) |->
                    LET ev == frame.rows[j][ServicesEV]
                        ei == frame.rows[j][ExpenseIncome]
                    IN  IF ev = NaN \/ ei = NaN THEN NaN ELSE Num(ev.n - ei.n)]))
    ELSE IF ~HasColumn(frame, ServicesEV) THEN Raise("KeyError", ServicesEV, FALSE)
    ELSE IF ~HasColumn(frame, ExpenseIncome) THEN Raise("KeyError", ExpenseIncome, FALSE)
    ELSE Ok(frame)

\* pd.to_datetime of one cell.
ToDatetime(value) ==
    CASE value.k = "none" -> Ok(NaT)
      [] value.k = "str" ->
            IF StrptimeYmd(value.s).ok THEN Ok(StrptimeYmd(value.s).v)
            ELSE Raise("ValueError", "CLOSE_DATE", TRUE)
      [] OTHER -> Raise("TypeError", "CLOSE_DATE", FALSE)

\* Lines 150-154.  'Q' + quarter.astype(str): the quarters are floats when
\* a date is missing.
CloseDateStep(frame) ==
    IF ~HasColumn(frame, "CLOSE_DATE") THEN Ok(frame)
    ELSE LET parsed == [j \in 1..Len(frame.rows) |->
                            ToDatetime(frame.rows[j]["CLOSE_DATE"])]
             dates == [j \in 1..Len(parsed) |-> parsed[j].v]
             floats == \E j \in 1..Len(parsed) : dates[j] = NaT
         IN  IF \E j \in 1..Len(parsed) : ~parsed[j].ok
             THEN [ok |-> FALSE,
                   exc |-> parsed[CHOOSE j \in 1..Len(parsed) :
                                /\ ~parsed[j].ok
                                /\ \A h \in 1..(j - 1) : parsed[h].ok].exc]
             ELSE Ok(WithColumn(
                      WithColumn(
                          WithColumn(frame, "CLOSE_DATE", dates),
                          "Fiscal Year",
                          [j \in 1..Len(dates) |->
                              IF dates[j] = NaT THEN NaN ELSE Num(100 * dates[j].y)]),
                      "Fiscal Quarter",
                      [j \in 1..Len(dates) |->
                          Str(IF dates[j] = NaT THEN <<"Q", "n", "a", "n">>
                              ELSE <<"Q", DigitChar((dates[j].m - 1) \div 3 + 1)>>
                                      \o (IF floats THEN <<".", "0">> ELSE << >>))]))

\* The frames process_pipeline_data is given: the frame without rows and
\* columns, and the frames of up to MaxFrameRows rows over some of the
\* columns, in the order the report has them.
Frames ==
    LET fields == <<"AMOUNT", ServicesEV, ExpenseIncome, UpstreamGap, "CLOSE_DATE">>
        Cells(name) ==
            CASE name = "AMOUNT" ->
                    {Num(10000), [k |-> "dict", amount |-> Num(2500)]}
              [] name = ServicesEV -> {Num(10000), PyNone, Str(<<"$", "5", "0">>)}
              [] name = ExpenseIncome -> {Num(4000), PyNone}
              [] name = UpstreamGap -> {Num(9900), PyNone}
              [] name = "CLOSE_DATE" ->
                    {PyNone,
                     Str(<<"2", "0", "2", "4", "-", "0", "5", "-", "1", "5">>),
                     Str(<<"W">>)}
        all == UNION {Cells(fields[h]) : h \in 1..Len(fields)}
    IN  {[columns |-> << >>, rows |-> << >>]} \cup
        UNION {
            {[columns |-> SelectSeq(fields, LAMBDA f : f \in S), rows |-> rows] :
                rows \in SeqsUpTo({r \in [S -> all] : \A f \in S : r[f] \in Cells(f)},
                                  MaxFrameRows) \ {<< >>}} :
            S \in (SUBSET {fields[h] : h \in 1..Len(fields)}) \ {{}}}

InitFrame ==
    /\ raw_data = << >>
    /\ report_data = PyNone
    /\ is_pipeline = TRUE
    /\ pc = "frame"
    /\ i = 0
    /\ opportunities = << >>
    /\ stage_summary = << >>
    /\ region_summary = << >>
    /\ owner_summary = << >>
    /\ snapshot = PyNone
    /\ error = PyNone
    /\ now = 0
    /\ files = << >>
    /\ calls = [c \in Calls |-> NoCall]
    /\ payload = PyNone
    /\ df \in Frames
    /\ manager = PyNone
    /\ gui = PyNone

\* Lines 111-157: process_pipeline_data(df).  The conversions are
\* assignments to the caller's frame, so they stay when a later line raises.
ProcessPipelineData ==
    /\ pc = "frame"
    /\ LET converted == ConvertAmounts(df)
           gap == GapStep(converted)
           dated == CloseDateStep(gap.v)
       IN  IF ~gap.ok
           THEN /\ df' = converted
                /\ error' = [exc |-> gap.exc, row |-> 0, in |-> "process_pipeline_data"]
                /\ pc' = "raised"
           ELSE IF ~dated.ok
           THEN /\ df' = gap.v
                /\ error' = [exc |-> dated.exc, row |-> 0, in |-> "process_pipeline_data"]
                /\ pc' = "raised"
           ELSE /\ df' = dated.v
                /\ error' = error
                /\ pc' = "processed"
    /\ UNCHANGED <<raw_data, report_data, is_pipeline, i, locals, snapshot,
                   disk, payload, manager, gui>>

SpecFrame == InitFrame /\ [][ProcessPipelineData]_vars

\* ------------------------------------------------ SalesforceDataManager
\* salesforce_data_manager.py.  manager holds the object's four fields, the
\* last call with its argument and return value, and two history fields:
\* `added`, the opportunities given to add_opportunities since the last
\* clear_data,
\* and `dropped`, whether a clear_data has discarded opportunities.
MaxStored == 2
MaxAccounts == 2
MaxContacts == 1

\* The accounts and opportunities the callers add: two accounts share an
\* id, one opportunity has no amount.
AccountSamples ==
    {[id |-> Str(<<"A", "1">>), name |-> "Acme"],
     [id |-> Str(<<"A", "1">>), name |-> "Acme Holdings"],
     [id |-> Str(<<"A", "2">>), name |-> "Bolt"]}

OpportunitySamples ==
    {[id |-> "O1", stage_name |-> "Prospecting", amount |-> Num(10000),
      account_id |-> Str(<<"A", "1">>)],
     [id |-> "O2", stage_name |-> "Closed Won", amount |-> PyNone,
      account_id |-> Str(<<"A", "1">>)],
     [id |-> "O3", stage_name |-> "Prospecting", amount |-> Num(2500),
      account_id |-> Str(<<"A", "2">>)]}

Returned(op, arg, value) == [op |-> op, arg |-> arg, value |-> value]

InitManager ==
    /\ raw_data = << >>
    /\ report_data = PyNone
    /\ is_pipeline = TRUE
    /\ pc = "manager"
    /\ i = 0
    /\ opportunities = << >>
    /\ stage_summary = << >>
    /\ region_summary = << >>
    /\ owner_summary = << >>
    /\ snapshot = PyNone
    /\ error = PyNone
    /\ now = 0
    /\ files = << >>
    /\ calls = [c \in Calls |-> NoCall]
    /\ payload = PyNone
    /\ df = PyNone
    /\ manager = [connection |-> PyNone, accounts |-> << >>, contacts |-> << >>,
                  opportunities |-> << >>, added |-> << >>, dropped |-> FALSE,
                  last |-> Returned("__init__", PyNone, PyNone)]
    /\ gui = PyNone

\* What the manager and the GUI leave alone.
service ==
    <<raw_data, report_data, is_pipeline, pc, i, locals, snapshot, error, disk,
      payload, df>>

\* Lines 21-23.
SetConnection ==
    /\ pc = "manager"
    /\ \E connection \in {[k |-> "connection", username |-> "user@example.com"]} :
          manager' = [manager EXCEPT
                        !.connection = connection,
                        !.last = Returned("set_connection", connection, PyNone)]
    /\ UNCHANGED <<service, gui>>

\* A clear_data that leaves the opportunities in place.
ClearDataKeepOpportunities ==
    /\ pc = "manager"
    /\ manager' = [manager EXCEPT
                     !.accounts = << >>,
                     !.contacts = << >>,
                     !.added = << >>,
                     !.dropped = @ \/ manager.opportunities # << >>,
                     !.last = Returned("clear_data", PyNone, PyNone)]
    /\ UNCHANGED <<service, gui>>

\* Lines 25-29.
ClearData ==
    /\ pc = "manager"
    /\ manager' = [manager EXCEPT
                     !.accounts = << >>,
                     !.contacts = << >>,
                     !.opportunities = << >>,
                     !.added = << >>,
                     !.dropped = @ \/ manager.opportunities # << >>,
                     !.last = Returned("clear_data", PyNone, PyNone)]
    /\ UNCHANGED <<service, gui>>

\* Lines 31-33.
AddAccounts ==
    /\ pc = "manager"
    /\ \E accounts \in SeqsUpTo(AccountSamples,
                                MaxAccounts - Len(manager.accounts)) \ {<< >>} :
          manager' = [manager EXCEPT
                        !.accounts = @ \o accounts,
                        !.last = Returned("add_accounts", PyNone, PyNone)]
    /\ UNCHANGED <<service, gui>>

\* Lines 35-37.
AddContacts ==
    /\ pc = "manager"
    /\ \E contacts \in SeqsUpTo({[id |-> "C1", account_id |-> Str(<<"A", "1">>)]},
                                MaxContacts - Len(manager.contacts)) \ {<< >>} :
          manager' = [manager EXCEPT
                        !.contacts = @ \o contacts,
                        !.last = Returned("add_contacts", PyNone, PyNone)]
    /\ UNCHANGED <<service, gui>>

\* Lines 39-41.
AddOpportunities ==
    /\ pc = "manager"
    /\ \E batch \in SeqsUpTo(OpportunitySamples,
                             MaxStored - Len(manager.opportunities)) \ {<< >>} :
          manager' = [manager EXCEPT
                        !.opportunities = @ \o batch,
                        !.added = @ \o batch,
                        !.last = Returned("add_opportunities", PyNone, PyNone)]
    /\ UNCHANGED <<service, gui>>

\* Lines 43-45.
GetAccountById ==
    /\ pc = "manager"
    /\ \E account_id \in {Str(<<"A", "1">>), Str(<<"A", "2">>)} :
          LET found == SelectSeq(manager.accounts, LAMBDA acc : acc.id = account_id)
          IN  manager' = [manager EXCEPT
                            !.last = Returned("get_account_by_id", account_id,
                                        IF found = << >> THEN PyNone ELSE found[1])]
    /\ UNCHANGED <<service, gui>>

\* Lines 47-49.
GetContactsByAccount ==
    /\ pc = "manager"
    /\ \E account_id \in {Str(<<"A", "1">>), Str(<<"A", "2">>)} :
          manager' = [manager EXCEPT
                        !.last = Returned("get_contacts_by_account", account_id,
                                    SelectSeq(manager.contacts,
                                        LAMBDA contact : contact.account_id = account_id))]
    /\ UNCHANGED <<service, gui>>

\* Line 53: the list comprehension over self.opportunities.
OpportunitiesByAccount(stored, account_id) ==
    SelectSeq(stored, LAMBDA opp : opp.account_id = account_id)

\* Lines 51-53.
GetOpportunitiesByAccount ==
    /\ pc = "manager"
    /\ \E account_id \in {Str(<<"A", "1">>), Str(<<"A", "2">>)} :
          manager' = [manager EXCEPT
                        !.last = Returned("get_opportunities_by_account", account_id,
                                    OpportunitiesByAccount(manager.opportunities,
                                                           account_id))]
    /\ UNCHANGED <<service, gui>>

RECURSIVE AccountOpportunityMap(_, _)
\* Lines 63-71: one item per account id, the later account's list replacing
\* the earlier one's.
AccountOpportunityMap(accounts, stored) ==
    IF accounts = << >> THEN << >>
    ELSE LET account == accounts[Len(accounts)]
         IN  DictSet(AccountOpportunityMap(SubSeq(accounts, 1, Len(accounts) - 1), stored),
                     account.id, OpportunitiesByAccount(stored, account.id))

\* Lines 55-71.
CreateAccountOpportunityMapping ==
    /\ pc = "manager"
    /\ manager' = [manager EXCEPT
                     !.last = Returned("create_account_opportunity_mapping", PyNone,
                                 AccountOpportunityMap(manager.accounts,
                                                       manager.opportunities))]
    /\ UNCHANGED <<service, gui>>

\* Lines 73-89: Account is a dataclass with eq and without frozen, so it has
\* no hash and cannot be a dict key; line 87 raises for the first account.
CreateAccountObjectOpportunityMapping ==
    /\ pc = "manager"
    /\ manager' = [manager EXCEPT
                     !.last = Returned("create_account_object_opportunity_mapping", PyNone,
                                 IF manager.accounts = << >> THEN << >>
                                 ELSE Exc("TypeError", "account", FALSE))]
    /\ UNCHANGED <<service, gui>>

\* An opportunity with a null amount is left out of its stage.
RECURSIVE StagesSkipNull(_)
StagesSkipNull(found) ==
    IF found = << >> THEN << >>
    ELSE LET before == StagesSkipNull(SubSeq(found, 1, Len(found) - 1))
             opp == found[Len(found)]
             old == IF \E j \in 1..Len(before) : before[j].name = opp.stage_name
                    THEN before[CHOOSE j \in 1..Len(before) :
                                    before[j].name = opp.stage_name].value
                    ELSE [count |-> 0, total_amount |-> 0]
         IN  IF opp.amount = PyNone THEN before
             ELSE DictSet(before, opp.stage_name,
                          [count |-> old.count + 1,
                           total_amount |-> old.total_amount + opp.amount.n])

RECURSIVE Stages(_)
\* Lines 111-117: the stages dict of one account's opportunities.
Stages(found) ==
    IF found = << >> THEN << >>
    ELSE LET before == Stages(SubSeq(found, 1, Len(found) - 1))
             opp == found[Len(found)]
             old == IF \E j \in 1..Len(before) : before[j].name = opp.stage_name
                    THEN before[CHOOSE j \in 1..Len(before) :
                                    before[j].name = opp.stage_name].value
                    ELSE [count |-> 0, total_amount |-> 0]
         IN  DictSet(before, opp.stage_name,
                     [count |-> old.count + 1,
                      total_amount |-> old.total_amount + PyOr(opp.amount, Num(0)).n])

RECURSIVE TotalAmount(_)
\* Line 107: sum(opp.amount or 0 for opp in opportunities)
TotalAmount(found) ==
    IF found = << >> THEN 0
    ELSE TotalAmount(SubSeq(found, 1, Len(found) - 1))
            + PyOr(found[Len(found)].amount, Num(0)).n

\* Lines 103-127: the summary of one account.  The average is kept as the
\* quotient it is computed from.
AccountSummary(account, stored) ==
    LET found == OpportunitiesByAccount(stored, account.id)
        total_opportunities == Len(found)
        total_amount == TotalAmount(found)
    IN  [account_name |-> account.name,
         account_object |-> account,
         opportunities |-> found,
         total_opportunities |-> total_opportunities,
         total_amount |-> total_amount,
         average_amount |-> IF total_opportunities > 0
                            THEN [num |-> total_amount, den |-> total_opportunities]
                            ELSE [num |-> 0, den |-> 1],
         stages |-> Stages(found)]

RECURSIVE OpportunitySummary(_, _)
\* Lines 99-129.
OpportunitySummary(accounts, stored) ==
    IF accounts = << >> THEN << >>
    ELSE LET account == accounts[Len(accounts)]
         IN  DictSet(OpportunitySummary(SubSeq(accounts, 1, Len(accounts) - 1), stored),
                     account.id, AccountSummary(account, stored))

\* Lines 91-129.
GetAccountOpportunitySummary ==
    /\ pc = "manager"
    /\ manager' = [manager EXCEPT
                     !.last = Returned("get_account_opportunity_summary", PyNone,
                                 OpportunitySummary(manager.accounts,
                                                    manager.opportunities))]
    /\ UNCHANGED <<service, gui>>

NextManager ==
    \/ SetConnection
    \/ ClearData
    \/ AddAccounts
    \/ AddContacts
    \/ AddOpportunities
    \/ GetAccountById
    \/ GetContactsByAccount
    \/ GetOpportunitiesByAccount
    \/ CreateAccountOpportunityMapping
    \/ CreateAccountObjectOpportunityMapping
    \/ GetAccountOpportunitySummary

SpecManager == InitManager /\ [][NextManager]_vars

\* ------------------------------------------------------- SalesforceGUI
\* main.py lines 152-229.  gui holds the retrieval threads (where each is,
\* whether the name e of its except clause is bound), the callbacks posted
\* with root.after(0, ...) in the order Tk will run them, and what the UI
\* thread has written: the lines of the output log with the retrieval they
\* come from, the status, the progress, and the exceptions Tk reported for
\* callbacks that raised.  The after() calls between two queries are one
\* step of the thread.
Retrievals == {"first", "second"}

\* A callback posted by retrieval w: which call it makes, and the line, the
\* status, the progress or the records it makes it with.
Callback(w, kind, with) == [kind |-> kind, of |-> w, with |-> with]

InitGui ==
    /\ raw_data = << >>
    /\ report_data = PyNone
    /\ is_pipeline = TRUE
    /\ pc = "gui"
    /\ i = 0
    /\ opportunities = << >>
    /\ stage_summary = << >>
    /\ region_summary = << >>
    /\ owner_summary = << >>
    /\ snapshot = PyNone
    /\ error = PyNone
    /\ now = 0
    /\ files = << >>
    /\ calls = [c \in Calls |-> NoCall]
    /\ payload = PyNone
    /\ df = PyNone
    /\ manager = PyNone
    /\ gui = [threads |-> [w \in Retrievals |->
                            [at |-> "unstarted", e_bound |-> FALSE, failed |-> FALSE]],
              queue |-> << >>,
              log |-> {},
              status |-> "Connected - Ready to retrieve data",
              progress |-> 25,
              reported |-> {}]

\* Lines 152-165, on the UI thread with self.sf set: the status, the log
\* line and the start of the thread.
RetrieveSalesforceData(w) ==
    /\ pc = "gui"
    /\ gui.threads[w].at = "unstarted"
    /\ gui' = [gui EXCEPT
                 !.status = "Retrieving Salesforce data...",
                 !.log = @ \cup {[of |-> w,
                                  text |-> "Starting data retrieval from Salesforce..."]},
                 !.threads[w].at = "started"]
    /\ UNCHANGED <<service, manager>>

\* Lines 176-177.
PostQueryingAccounts(w) ==
    /\ pc = "gui"
    /\ gui.threads[w].at = "started"
    /\ gui' = [gui EXCEPT
                 !.queue = @ \o <<Callback(w, "log", "Querying Accounts..."),
                                  Callback(w, "progress", 20)>>,
                 !.threads[w].at = "query accounts"]
    /\ UNCHANGED <<service, manager>>

\* Lines 205-208: the handler posts its three callbacks; the first of them
\* reads e when it runs.
Except(w, at) ==
    /\ pc = "gui"
    /\ gui.threads[w].at = at
    /\ gui' = [gui EXCEPT
                 !.queue = @ \o <<Callback(w, "log_error", "e"),
                                  Callback(w, "status", "Data retrieval failed"),
                                  Callback(w, "progress", 0)>>,
                 !.threads[w] = [at |-> "except", e_bound |-> TRUE, failed |-> TRUE]]
    /\ UNCHANGED <<service, manager>>

\* Lines 179-190: the accounts query answers or raises.
QueryAccounts(w) ==
    \/ /\ pc = "gui"
       /\ gui.threads[w].at = "query accounts"
       /\ gui' = [gui EXCEPT
                    !.queue = @ \o <<Callback(w, "log", "Found accounts"),
                                     Callback(w, "progress", 40),
                                     Callback(w, "log", "Querying Opportunities...")>>,
                    !.threads[w].at = "query opportunities"]
       /\ UNCHANGED <<service, manager>>
    \/ Except(w, "query accounts")

\* Lines 191-203: the opportunities query answers, with or without a record
\* whose Amount is null, or raises.
QueryOpportunities(w) ==
    \/ /\ pc = "gui"
       /\ gui.threads[w].at = "query opportunities"
       /\ \E records \in {"amounts", "null amount"} :
             gui' = [gui EXCEPT
                       !.queue = @ \o <<Callback(w, "log", "Found open opportunities"),
                                        Callback(w, "progress", 100),
                                        Callback(w, "display", records)>>,
                       !.threads[w].at = "finished"]
       /\ UNCHANGED <<service, manager>>
    \/ Except(w, "query opportunities")

\* The end of the except clause unbinds e, and the thread ends.
LeaveExcept(w) ==
    /\ pc = "gui"
    /\ gui.threads[w].at = "except"
    /\ gui' = [gui EXCEPT
                 !.threads[w].at = "finished",
                 !.threads[w].e_bound = FALSE]
    /\ UNCHANGED <<service, manager>>

\* The UI thread runs the oldest callback.  Line 206 reads e when it runs:
\* str(e) with e unbound is a NameError.  _display_results (lines 210-229)
\* formats opp.get('Amount', 0) at line 225, which is None for a record
\* whose Amount is null, and raises before the status and the progress are
\* set.  Tk reports the exception of a callback and goes on.
RunCallback ==
    /\ pc = "gui"
    /\ gui.queue # << >>
    /\ LET callback == Head(gui.queue)
           g == [gui EXCEPT !.queue = Tail(@)]
           Line(text) == [of |-> callback.of, text |-> text]
           Reported(type) == [of |-> callback.of, type |-> type]
       IN  gui' =
             CASE callback.kind = "log" ->
                    [g EXCEPT !.log = @ \cup {Line(callback.with)}]
               [] callback.kind = "progress" ->
                    [g EXCEPT !.progress = callback.with]
               [] callback.kind = "status" ->
                    [g EXCEPT !.status = callback.with]
               [] callback.kind = "log_error" ->
                    IF g.threads[callback.of].e_bound
                    THEN [g EXCEPT !.log = @ \cup
                                {Line("Error in data retrieval: <message>")}]
                    ELSE [g EXCEPT !.reported = @ \cup {Reported("NameError")}]
               [] callback.kind = "display" ->
                    IF callback.with = "null amount"
                    THEN [g EXCEPT
                            !.log = @ \cup {Line("Account Summary:"),
                                            Line("Open Opportunities:")},
                            !.reported = @ \cup {Reported("TypeError")}]
                    ELSE [g EXCEPT
                            !.log = @ \cup {Line("Account Summary:"),
                                            Line("Open Opportunities:"),
                                            Line("Amount: $<amount>")},
                            !.status = "Data retrieval completed",
                            !.progress = 0]
    /\ UNCHANGED <<service, manager>>

NextGui ==
    \/ \E w \in Retrievals :
          \/ RetrieveSalesforceData(w)
          \/ PostQueryingAccounts(w)
          \/ QueryAccounts(w)
          \/ QueryOpportunities(w)
          \/ LeaveExcept(w)
    \/ RunCallback

SpecGui == InitGui /\ [][NextGui]_vars

\* ------------------------------------------------------------------ claims
\* The call of create_pipeline_snapshot has raised.
MapperRaised == pc = "raised" /\ error.in = "create_pipeline_snapshot"
\* create_pipeline_snapshot has been entered.
InCall == report_data # PyNone /\ pc # "report"
\* The rows of the call's ReportData.
Rows == report_data.raw_data
\* The cell of row j under a label.
Cell(j, label) == Rows[j][label]

RECURSIVE SumCounts(_)
SumCounts(summary) ==
    IF summary = << >> THEN 0 ELSE summary[1].count + SumCounts(Tail(summary))

\* C1: in every snapshot returned, the bucket counts of stage_summary sum to
\* total_count, and so do those of region_summary and of owner_summary.
C1_CountsSumToTotal ==
    snapshot # PyNone =>
        /\ SumCounts(snapshot.stage_summary) = snapshot.total_count
        /\ SumCounts(snapshot.region_summary) = snapshot.total_count
        /\ SumCounts(snapshot.owner_summary) = snapshot.total_count

\* C1 witness: a snapshot of two records, one of a row without Stage, Region
\* and Owner Name, that share no stage.
C1_Witness ==
    /\ snapshot # PyNone
    /\ snapshot.total_count = 2
    /\ Len(snapshot.stage_summary) = 2
    /\ \E j \in 1..2 :
          /\ Cell(j, "Stage") = Absent
          /\ Cell(j, "Region") = Absent
          /\ Cell(j, "Owner Name") = Absent

\* Sum of the amounts of the records at the given indices.
RECURSIVE AmountOver(_, _)
AmountOver(opps, indices) ==
    IF indices = {} THEN 0
    ELSE LET j == CHOOSE x \in indices : TRUE
         IN  (IF opps[j].amount.k = "num" THEN opps[j].amount.n ELSE 0)
                + AmountOver(opps, indices \ {j})

\* C2: in every snapshot returned, total_count is the length of opportunities
\* and total_amount the sum of their amounts, whatever totals the ReportData
\* carries.
C2_TotalsRecomputed ==
    snapshot # PyNone =>
        /\ snapshot.total_count = Len(snapshot.opportunities)
        /\ snapshot.total_amount =
              AmountOver(snapshot.opportunities, DOMAIN snapshot.opportunities)

\* C2 witness: a snapshot of two records with a positive total, built from a
\* ReportData whose own totals are different.
C2_Witness ==
    /\ snapshot # PyNone
    /\ snapshot.total_count = 2
    /\ snapshot.total_amount > 0
    /\ report_data.total_records # snapshot.total_count
    /\ report_data.total_amount # snapshot.total_amount

\* A non-empty Close Date string that neither format parses.
BadCloseDate(row) ==
    /\ row["Close Date"].k = "str"
    /\ row["Close Date"].s # << >>
    /\ ~StrptimeYmd(row["Close Date"].s).ok
    /\ ~StrptimeMdy(row["Close Date"].s).ok

\* Whether the string starts with what the pattern of MM/DD/YYYY matches.
StartsWithMdy(s) ==
    \E n \in 1..Len(s) :
        LET parsed == StrptimeMdy(SubSeq(s, 1, n))
        IN  parsed.ok \/ parsed.why = "out of range"

FirstFailing(rows, kind) ==
    CHOOSE j \in 1..Len(rows) :
        /\ ~MapRow(rows[j], kind).ok
        /\ \A h \in 1..(j - 1) : MapRow(rows[h], kind).ok

\* C4, in a state: when mapping fails, no snapshot exists and nothing is
\* exported, the loop stands at the first failing row with exactly the rows
\* before it mapped; a snapshot exists only when every row mapped.
C4_State ==
    /\ MapperRaised =>
          /\ snapshot = PyNone
          /\ files = << >>
          /\ error.row = FirstFailing(Rows, is_pipeline)
          /\ i = error.row
          /\ Len(opportunities) = error.row - 1
    /\ snapshot # PyNone =>
          /\ \A j \in 1..Len(Rows) : MapRow(Rows[j], is_pipeline).ok
          /\ Len(snapshot.opportunities) = Len(Rows)

\* C4, in a step: once the call is entered the ReportData never changes, and
\* after the exception nothing of the call changes any more.
C4_Step ==
    /\ InCall => report_data' = report_data
    /\ MapperRaised => UNCHANGED vars

\* C4: all-or-nothing build of the snapshot.
C4_AllOrNothing == [](C4_State) /\ [][C4_Step]_vars

\* C4 witness: the call raised on the second of two rows, after the first
\* was mapped; no snapshot holds that first record.
C4_Witness ==
    /\ MapperRaised
    /\ error.row = 2
    /\ Len(Rows) = 2
    /\ Len(opportunities) = 1
    /\ snapshot = PyNone

CurrencyString == <<"$", "1", ",", "2", "3", "4", ".", "5", "6">>

\* C5: a row whose Amount is "$1,234.56" is mapped, for either kind, to a
\* record of amount 1234.56 (no error), and a numeric Amount is taken as is.
C5_CurrencyAmountMapped ==
    InCall =>
        \A j \in 1..Len(Rows) :
            /\ Cell(j, "Amount") = Str(CurrencyString) =>
                  /\ ~(MapperRaised /\ error.row = j /\ error.exc.label = "Amount")
                  /\ j <= Len(opportunities) => opportunities[j].amount = Num(123456)
            /\ (Cell(j, "Amount").k = "num" /\ j <= Len(opportunities)) =>
                  opportunities[j].amount = Cell(j, "Amount")

\* An Amount cell that is absent, null or not a number in text.
NoAmount(cell) ==
    \/ cell \in {Absent, PyNone}
    \/ cell.k = "str" /\ ~FloatOfStr(cell.s).ok

RECURSIVE AmountCells(_)
\* Sum of the Amount cells of the rows, such a cell counting as 0.
AmountCells(rows) ==
    IF rows = << >> THEN 0
    ELSE (IF NoAmount(rows[1]["Amount"]) THEN 0
          ELSE FloatOrZero(rows[1], "Amount").v.n) + AmountCells(Tail(rows))

\* C6: an absent, null or unparseable Amount cell raises no error, in the
\* parser or in the mapper: the record's amount is 0 and the cell counts as 0
\* in ReportData.total_amount.
C6_AmountNeverRaises ==
    /\ ~(pc = "raised" /\ error.exc.label = "Amount")
    /\ InCall =>
          \A j \in 1..Len(opportunities) :
              NoAmount(Cell(j, "Amount")) => opportunities[j].amount = Num(0)
    /\ (report_data # PyNone /\ report_data.total_records = Len(raw_data)) =>
          report_data.total_amount = AmountCells(raw_data)

\* C7: the gap of a pipeline record is the row's Expected Value minus its
\* Expected Income (500 and 200 give 300), and every row of a pipeline
\* opportunities file carries that difference and is one of the records.
C7_GapRecomputed ==
    /\ (InCall /\ is_pipeline) =>
          \A j \in 1..Len(opportunities) :
              /\ opportunities[j].expected_value_gap =
                    Num(FloatOrZero(Rows[j], "Expected Value").v.n
                          - FloatOrZero(Rows[j], "Expected Income").v.n)
              /\ (Cell(j, "Expected Value") = Num(50000)
                    /\ Cell(j, "Expected Income") = Num(20000)) =>
                    opportunities[j].expected_value_gap = Num(30000)
    /\ \A name \in DOMAIN files :
          (name.prefix = "pipeline" /\ name.part = "opportunities") =>
              \A h \in 1..Len(files[name]) :
                  /\ files[name][h].expected_value_gap =
                        Num(files[name][h].expected_value.n
                              - files[name][h].expected_income.n)
                  /\ \E j \in 1..Len(snapshot.opportunities) :
                        /\ files[name][h].id = snapshot.opportunities[j].id
                        /\ files[name][h].expected_value_gap
                              = snapshot.opportunities[j].expected_value_gap

\* C7 witness: a pipeline export of two records, one from a row with 500 and
\* 200 whose upstream gap cell says 999.
C7_Witness ==
    /\ pc = "exported"
    /\ is_pipeline
    /\ \E name \in DOMAIN files :
          /\ name.prefix = "pipeline" /\ name.part = "opportunities"
          /\ Len(files[name]) = 2
          /\ \E h \in 1..2 : files[name][h].expected_value_gap = Num(30000)
    /\ \E j \in 1..2 :
          /\ Cell(j, "Expected Value") = Num(50000)
          /\ Cell(j, "Expected Income") = Num(20000)
          /\ Cell(j, "Expected Value Gap") = Num(99900)

\* C8: every record has a gap exactly when it has both an expected value and
\* an expected income.
C8_GapDefinedIff ==
    \A j \in 1..Len(opportunities) :
        (opportunities[j].expected_value_gap # PyNone)
            <=> (/\ opportunities[j].expected_value # PyNone
                 /\ opportunities[j].expected_income # PyNone)

\* C8 witness: a returned snapshot holding a pipeline record of a row
\* without expected-value cells (all three fields are 0, none is None); the
\* closed-won snapshots, where all three are None, are reached as well.
C8_Witness ==
    /\ snapshot # PyNone
    /\ is_pipeline
    /\ \E j \in 1..Len(snapshot.opportunities) :
          /\ Cell(j, "Expected Value") = Absent
          /\ Cell(j, "Expected Income") = Absent
          /\ snapshot.opportunities[j].expected_value_gap = Num(0)

\* C9: pipeline records are neither closed nor won; closed-won records are
\* closed and won, in stage 'Closed Won' and without expected-value fields,
\* whatever the row holds.
C9_FlagsByKind ==
    InCall =>
        \A j \in 1..Len(opportunities) :
            IF is_pipeline
            THEN ~opportunities[j].is_closed /\ ~opportunities[j].is_won
            ELSE /\ opportunities[j].is_closed
                 /\ opportunities[j].is_won
                 /\ opportunities[j].stage_name = Str(ClosedWon)
                 /\ opportunities[j].expected_value = PyNone
                 /\ opportunities[j].expected_income = PyNone
                 /\ opportunities[j].expected_value_gap = PyNone

\* C9 witness: a closed-won snapshot of a row that has another Stage and an
\* Expected Value.
C9_Witness ==
    /\ snapshot # PyNone
    /\ ~is_pipeline
    /\ \E j \in 1..Len(snapshot.opportunities) :
          /\ Cell(j, "Stage").k = "str"
          /\ Cell(j, "Stage") # Str(ClosedWon)
          /\ Cell(j, "Expected Value") = Num(50000)
          /\ snapshot.opportunities[j].stage_name = Str(ClosedWon)

\* The two spellings of a calendar day.
YmdText(d) == Pad4(d.y) \o <<"-">> \o Pad2(d.m) \o <<"-">> \o Pad2(d.d)
MdyText(d) == Pad2(d.m) \o <<"/">> \o Pad2(d.d) \o <<"/">> \o Pad4(d.y)
SampleDays == {Date(2024, 3, 15), Date(2024, 3, 20)}

\* C10: a Close Date in either format is parsed to its calendar day, the
\* same day for both spellings, and never makes the mapping fail; an absent
\* or empty Close Date gives a null close_date.
C10_CloseDateFormats ==
    InCall =>
        /\ \A j \in 1..Len(opportunities) :
              /\ Cell(j, "Close Date") \in {Absent, PyNone, Str(<< >>)} =>
                    opportunities[j].close_date = PyNone
              /\ \A d \in SampleDays :
                    Cell(j, "Close Date") \in {Str(YmdText(d)), Str(MdyText(d))} =>
                        opportunities[j].close_date = d
        /\ (MapperRaised /\ error.exc.label = "Close Date") =>
              /\ Cell(error.row, "Close Date") \notin {Absent, PyNone, Str(<< >>)}
              /\ \A d \in SampleDays :
                    Cell(error.row, "Close Date") \notin {Str(YmdText(d)), Str(MdyText(d))}

\* C10 witness: a snapshot of two rows that spell 15 March 2024 in the two
\* formats and whose records have the same close_date.
C10_Witness ==
    /\ snapshot # PyNone
    /\ Len(snapshot.opportunities) = 2
    /\ Cell(1, "Close Date") = Str(YmdText(Date(2024, 3, 15)))
    /\ Cell(2, "Close Date") = Str(MdyText(Date(2024, 3, 15)))
    /\ snapshot.opportunities[1].close_date = Date(2024, 3, 15)
    /\ snapshot.opportunities[2].close_date = snapshot.opportunities[1].close_date

\* The record field a classification cell is copied to.
FieldOf(label) ==
    CASE label = "Stage" -> "stage_name"
      [] label = "Region" -> "region"
      [] label = "Owner Name" -> "owner_name"
      [] label = "Owner ID" -> "owner_id"
      [] label = "Account ID" -> "account_id"
      [] label = "Type" -> "type"
      [] label = "Product Line" -> "product_line"
      [] label = "Probability" -> "probability"
      [] label = "Forecast Category" -> "forecast_category"
      [] label = "Close Date" -> "close_date"
      [] label = "Expected Value" -> "expected_value"
      [] label = "Expected Income" -> "expected_income"

\* A Fiscal Period cell of the form "<quarter> <year>": a str with exactly
\* one space, and text on both sides of it.
QuarterYear(cell) ==
    /\ cell.k = "str"
    /\ Cardinality({p \in 1..Len(cell.s) : cell.s[p] = " "}) = 1
    /\ IndexOf(cell.s, " ") \notin {1, Len(cell.s)}

\* C11: the record of a row whose Fiscal Period is "<quarter> <year>" has the
\* text before the space as fiscal_quarter and the text after it as
\* fiscal_year; the record of a row without a Fiscal Period has a null
\* fiscal_quarter and a null fiscal_year, and such a row raises no error.
C11_FiscalPeriodMapped ==
    InCall =>
        /\ \A j \in 1..Len(opportunities) :
              LET cell == Cell(j, "Fiscal Period")
                  sp == IndexOf(cell.s, " ")
              IN  /\ QuarterYear(cell) =>
                        /\ opportunities[j].fiscal_quarter =
                              Str(SubSeq(cell.s, 1, sp - 1))
                        /\ opportunities[j].fiscal_year =
                              Str(SubSeq(cell.s, sp + 1, Len(cell.s)))
                  /\ cell = Absent =>
                        /\ opportunities[j].fiscal_quarter = PyNone
                        /\ opportunities[j].fiscal_year = PyNone
        /\ ~(/\ MapperRaised
             /\ error.exc.label = "Fiscal Period"
             /\ Cell(error.row, "Fiscal Period") = Absent)

\* The optional cells.
OptionalCells ==
    {"Stage", "Region", "Owner Name", "Owner ID", "Account ID", "Type",
     "Product Line", "Probability", "Forecast Category", "Fiscal Period",
     "Close Date", "Expected Value", "Expected Income"}

\* C12: no call fails on an optional cell that is absent or null; the field
\* of such a cell is null in the record (fiscal_quarter and fiscal_year for
\* Fiscal Period), and a pipeline record's classification fields are the
\* cells that are present.
C12_OptionalNeverFails ==
    InCall =>
        /\ ~(/\ MapperRaised
             /\ error.exc.label \in OptionalCells
             /\ Cell(error.row, error.exc.label) \in {Absent, PyNone})
        /\ \A j \in 1..Len(opportunities) :
              /\ \A label \in OptionalCells \ {"Fiscal Period"} :
                    Cell(j, label) \in {Absent, PyNone} =>
                        opportunities[j][FieldOf(label)] = PyNone
              /\ Cell(j, "Fiscal Period") \in {Absent, PyNone} =>
                    /\ opportunities[j].fiscal_quarter = PyNone
                    /\ opportunities[j].fiscal_year = PyNone
              /\ is_pipeline =>
                    \A label \in {"Stage", "Region", "Owner Name", "Owner ID",
                                  "Account ID", "Type", "Product Line",
                                  "Forecast Category"} :
                        Cell(j, label) \notin {Absent, PyNone} =>
                            opportunities[j][FieldOf(label)] = Cell(j, label)

\* The number of records counted under `key` in a summary.
CountUnder(summary, key) ==
    SumCounts(SelectSeq(summary, LAMBDA b : b.key = key))

\* C14: no table of a snapshot has a null key, each table counts every
\* record, and the records of rows without a Stage are counted under
\* "Unknown" in stage_summary.
C14_NoNullKey ==
    snapshot # PyNone =>
        /\ ~HasKey(snapshot.stage_summary, PyNone)
        /\ ~HasKey(snapshot.region_summary, PyNone)
        /\ ~HasKey(snapshot.owner_summary, PyNone)
        /\ SumCounts(snapshot.stage_summary) = snapshot.total_count
        /\ SumCounts(snapshot.region_summary) = snapshot.total_count
        /\ SumCounts(snapshot.owner_summary) = snapshot.total_count
        /\ is_pipeline =>
              CountUnder(snapshot.stage_summary, Str(Unknown)) >=
                  Cardinality({j \in 1..Len(Rows) : Cell(j, "Stage") = Absent})

\* A Region or Owner Name cell whose record the claim puts under "Unknown".
MissingOrLiteral(cell) == cell \in {Absent, PyNone, Str(Unknown)}

\* The number of rows of the call whose cell under `label` satisfies P.
RowsWhere(label, P(_)) == Cardinality({j \in 1..Len(Rows) : P(Cell(j, label))})

\* C13 as stated: region_summary and owner_summary of a snapshot have a
\* single "Unknown" bucket whose count is the number of records whose Region
\* (resp. Owner Name) is absent, null or the text "Unknown".
C13_UnknownCountsMissing ==
    pc = "returned" =>
        /\ CountUnder(snapshot.region_summary, Str(Unknown))
              = RowsWhere("Region", MissingOrLiteral)
        /\ CountUnder(snapshot.owner_summary, Str(Unknown))
              = RowsWhere("Owner Name", MissingOrLiteral)

\* The same with the empty string, which also falls back to "Unknown".
MissingEmptyOrLiteral(cell) == MissingOrLiteral(cell) \/ cell = Str(<< >>)

\* C13 amended: region_summary and owner_summary of a snapshot have at most
\* one bucket keyed "Unknown" and none keyed null or ''; its count is the
\* number of records whose Region (resp. Owner Name) is absent, null, the
\* empty string or the text "Unknown" (two rows missing Region give 2).
C13_UnknownCountsFalsy ==
    pc = "returned" =>
        /\ \A summary \in {snapshot.region_summary, snapshot.owner_summary} :
              /\ Cardinality({j \in 1..Len(summary) : summary[j].key = Str(Unknown)}) <= 1
              /\ ~HasKey(summary, PyNone)
              /\ ~HasKey(summary, Str(<< >>))
        /\ CountUnder(snapshot.region_summary, Str(Unknown))
              = RowsWhere("Region", MissingEmptyOrLiteral)
        /\ CountUnder(snapshot.owner_summary, Str(Unknown))
              = RowsWhere("Owner Name", MissingEmptyOrLiteral)

\* C13 witness: a pipeline snapshot of a row without Region and a row whose
\* Region is the text "Unknown": one region bucket, of count 2.
C13_Witness ==
    /\ pc = "returned"
    /\ is_pipeline
    /\ Len(Rows) = 2
    /\ \E j, h \in 1..2 :
          Cell(j, "Region") = Absent /\ Cell(h, "Region") = Str(Unknown)
    /\ Len(snapshot.region_summary) = 1
    /\ snapshot.region_summary[1].key = Str(Unknown)
    /\ snapshot.region_summary[1].count = 2

\* Whether the snapshot the caller holds was built with the kind of the call
\* that is running.
SameKindAsSnapshot ==
    /\ snapshot # PyNone
    /\ \A j \in 1..Len(snapshot.opportunities) :
          snapshot.opportunities[j].is_closed = ~is_pipeline

OpportunityFiles(prefix) ==
    {name \in DOMAIN files : name.prefix = prefix /\ name.part = "opportunities"}

\* a <= b for the text of a sort column, a null after every text.
TextNullsLast(a, b) ==
    \/ b = PyNone
    \/ a # PyNone /\ (a = b \/ StrLess(a.s, b.s))

\* C16: in a pipeline opportunities file, two adjacent rows are in ascending
\* order of fiscal_year (a null year last), of fiscal_quarter when the years
\* are equal, and the first has a gap at least the second's when both year
\* and quarter are equal.
C16_PipelineSorted ==
    \A name \in OpportunityFiles("pipeline") :
        \A h \in 1..(Len(files[name]) - 1) :
            LET a == files[name][h]
                b == files[name][h + 1]
            IN  /\ TextNullsLast(a.fiscal_year, b.fiscal_year)
                /\ a.fiscal_year = b.fiscal_year =>
                      TextNullsLast(a.fiscal_quarter, b.fiscal_quarter)
                /\ (a.fiscal_year = b.fiscal_year
                      /\ a.fiscal_quarter = b.fiscal_quarter) =>
                      a.expected_value_gap.n >= b.expected_value_gap.n

\* C16 witness: a pipeline file of three rows, the first of 2023, the other
\* two of one quarter of 2024 with the larger gap first, built from a
\* snapshot whose first record is the file's last row.
C16_Witness ==
    /\ pc = "exported"
    /\ \E name \in OpportunityFiles("pipeline") :
          LET f == files[name]
          IN  /\ Len(f) = 3
              /\ f[1].fiscal_year = Str(<<"2", "0", "2", "3">>)
              /\ f[2].fiscal_year = f[3].fiscal_year
              /\ f[2].fiscal_quarter = f[3].fiscal_quarter
              /\ f[2].expected_value_gap.n > f[3].expected_value_gap.n
              /\ snapshot.opportunities[1].id = f[3].id

\* d <= e for two close dates as calendar days, a null after every day.
ChronoNullsLast(d, e) ==
    \/ e = PyNone
    \/ /\ d # PyNone
       /\ \/ d.y < e.y
          \/ d.y = e.y /\ d.m < e.m
          \/ d.y = e.y /\ d.m = e.m /\ d.d <= e.d

\* The records of the snapshot that a row of a file was made of.
RecordsOf(row) ==
    {p \in 1..Len(snapshot.opportunities) : ToDict(snapshot.opportunities[p]) = row}

\* C17: in a closed-won opportunities file every row is the row of a record;
\* two adjacent rows are records in chronological order of close_date (a
\* null close_date last), the first with an amount at least the second's
\* when the days are equal; no row with a close_date follows a row without.
C17_ClosedWonSorted ==
    \A name \in OpportunityFiles("closed_won") :
        LET f == files[name]
        IN  /\ \A h \in 1..Len(f) : RecordsOf(f[h]) # {}
            /\ \A h \in 1..(Len(f) - 1) :
                  \A p \in RecordsOf(f[h]), q \in RecordsOf(f[h + 1]) :
                      LET a == snapshot.opportunities[p]
                          b == snapshot.opportunities[q]
                      IN  /\ ChronoNullsLast(a.close_date, b.close_date)
                          /\ a.close_date = b.close_date =>
                                a.amount.n >= b.amount.n
            /\ \A h, g \in 1..Len(f) :
                  (h < g /\ f[h].close_date = PyNone) => f[g].close_date = PyNone

\* C17 witness: a closed-won file of three rows: a day of December 2023,
\* then a day of March 2024, then a row without close_date that was the
\* snapshot's first record.
C17_Witness ==
    /\ pc = "exported"
    /\ \E name \in OpportunityFiles("closed_won") :
          LET f == files[name]
          IN  /\ Len(f) = 3
              /\ snapshot.opportunities[1].close_date = PyNone
              /\ snapshot.opportunities[2].close_date = Date(2024, 3, 15)
              /\ snapshot.opportunities[3].close_date = Date(2023, 12, 1)
              /\ f[1] = ToDict(snapshot.opportunities[3])
              /\ f[2] = ToDict(snapshot.opportunities[2])
              /\ f[3].close_date = PyNone

\* The number of times x is an element of the sequence q.
Occurrences(q, x) == Cardinality({j \in 1..Len(q) : q[j] = x})

\* C18: an opportunities file holds the rows of the snapshot's records, each
\* as often as the snapshot holds the record; it has total_count rows and
\* its amount column sums to total_amount.
C18_ExportRoundTrip ==
    \A name \in OpportunityFiles("pipeline") \cup OpportunityFiles("closed_won") :
        LET f == files[name]
            rows == [p \in 1..Len(snapshot.opportunities) |->
                        ToDict(snapshot.opportunities[p])]
        IN  /\ \A h \in 1..Len(f) : Occurrences(f, f[h]) = Occurrences(rows, f[h])
            /\ \A p \in 1..Len(rows) : Occurrences(f, rows[p]) = Occurrences(rows, rows[p])
            /\ Len(f) = snapshot.total_count
            /\ AmountOver(f, DOMAIN f) = snapshot.total_amount

\* C18 witness: an exported file of three rows, two of them equal, whose
\* first row is not the snapshot's first record, with a positive total.
C18_Witness ==
    /\ pc = "exported"
    /\ \E name \in DOMAIN files :
          /\ name.part = "opportunities"
          /\ Len(files[name]) = 3
          /\ \E h, g \in 1..3 : h # g /\ files[name][h] = files[name][g]
          /\ files[name][1] # ToDict(snapshot.opportunities[1])
    /\ snapshot.total_amount > 0

\* C19: two export_to_csv calls of the same kind never write the same path.
C19_NoSharedPath ==
    \A c, d \in Calls :
        (c # d /\ calls[c].as_pipeline = calls[d].as_pipeline) =>
            calls[c].wrote \cap calls[d].wrote = {}

\* The files of a complete export of a kind under a timestamp.
Family(as_pipeline, timestamp) ==
    {[prefix |-> IF as_pipeline THEN "pipeline" ELSE "closed_won",
      part |-> part, timestamp |-> timestamp] :
        part \in {"summary", "opportunities", "stages", "regions"}
                    \cup (IF as_pipeline THEN {} ELSE {"temporal"})}

\* C20: a call that has returned has written the summary, opportunities,
\* stages and regions files of its prefix, the temporal file as well exactly
\* when its kind is closed-won, and nothing else, all under the timestamp it
\* took on entry; the files are in the directory.
C20_FileFamily ==
    \A c \in Calls :
        calls[c].at = "done" =>
            /\ calls[c].wrote = Family(calls[c].as_pipeline, calls[c].timestamp)
            /\ calls[c].wrote \subseteq DOMAIN files

\* C20 witness: a pipeline call and a closed-won call have both returned,
\* one of them entered before the clock went on and returned after.
C20_Witness ==
    /\ calls["first"].at = "done"
    /\ calls["second"].at = "done"
    /\ calls["first"].as_pipeline
    /\ ~calls["second"].as_pipeline
    /\ calls["first"].timestamp < now
    /\ Cardinality(calls["first"].wrote) = 4
    /\ Cardinality(calls["second"].wrote) = 5

\* C22: the snapshot of a report without rows has total_count 0,
\* total_amount 0 and three empty tables; its export never raises, and an
\* export that has returned has written the files of its kind.
C22_EmptyReportValid ==
    (snapshot # PyNone /\ Rows = << >>) =>
        /\ snapshot.total_count = 0
        /\ snapshot.total_amount = 0
        /\ snapshot.stage_summary = << >>
        /\ snapshot.region_summary = << >>
        /\ snapshot.owner_summary = << >>
        /\ ~(pc = "raised" /\ error.in = "export_to_csv")
        /\ pc = "exported" =>
              \E as_pipeline \in BOOLEAN :
                  DOMAIN files = Family(as_pipeline, now)

\* The sum of a numeric field over the records at the given indices, a null
\* counting as 0.
RECURSIVE FieldOver(_, _, _)
FieldOver(opps, indices, field) ==
    IF indices = {} THEN 0
    ELSE LET j == CHOOSE x \in indices : TRUE
         IN  (IF opps[j][field].k = "num" THEN opps[j][field].n ELSE 0)
                + FieldOver(opps, indices \ {j}, field)

\* The sum of a metric over the buckets of a table.
RECURSIVE BucketsTotal(_, _)
BucketsTotal(summary, field) ==
    IF summary = << >> THEN 0
    ELSE summary[1][field] + BucketsTotal(Tail(summary), field)

\* The bucket key of a record in each table.
GroupingKey(table, opp) ==
    CASE table = "stage_summary" -> opp.stage_name
      [] table = "region_summary" ->
            IF opp.region \in {PyNone, Str(<< >>)} THEN Str(Unknown) ELSE opp.region
      [] table = "owner_summary" ->
            IF opp.owner_name \in {PyNone, Str(<< >>)} THEN Str(Unknown)
            ELSE opp.owner_name

GroupingTables == {"stage_summary", "region_summary", "owner_summary"}
PipelineMetrics == {"expected_value", "expected_income", "expected_value_gap"}

\* C25: in each table of a snapshot every bucket's amount is the sum of the
\* amounts of the records of its key and the bucket amounts sum to
\* total_amount; in a pipeline snapshot the same holds for expected_value,
\* expected_income and expected_value_gap, and each bucket's gap is its
\* expected_value minus its expected_income.
C25_BucketSums ==
    pc = "returned" =>
        \A table \in GroupingTables :
            LET summary == snapshot[table]
                opps == snapshot.opportunities
                members(key) == {j \in 1..Len(opps) : GroupingKey(table, opps[j]) = key}
            IN  /\ BucketsTotal(summary, "amount") = snapshot.total_amount
                /\ \A b \in 1..Len(summary) :
                      /\ summary[b].amount = FieldOver(opps, members(summary[b].key), "amount")
                      /\ is_pipeline =>
                            /\ \A field \in PipelineMetrics :
                                  summary[b][field]
                                      = FieldOver(opps, members(summary[b].key), field)
                            /\ summary[b].expected_value_gap
                                  = summary[b].expected_value - summary[b].expected_income
                /\ is_pipeline =>
                      \A field \in PipelineMetrics :
                          BucketsTotal(summary, field)
                              = FieldOver(opps, DOMAIN opps, field)

\* C25 witness: a pipeline snapshot of three records, two of them in one
\* region bucket whose amount and gap are the sums of theirs, both positive
\* and different.
C25_Witness ==
    /\ pc = "returned"
    /\ is_pipeline
    /\ Len(snapshot.opportunities) = 3
    /\ \E b \in 1..Len(snapshot.region_summary) :
          LET bucket == snapshot.region_summary[b]
          IN  /\ bucket.count = 2
              /\ \E j, h \in 1..3 :
                    /\ j # h
                    /\ snapshot.opportunities[j].amount.n > 0
                    /\ snapshot.opportunities[h].amount.n > snapshot.opportunities[j].amount.n
                    /\ bucket.amount = snapshot.opportunities[j].amount.n
                                          + snapshot.opportunities[h].amount.n
                    /\ bucket.expected_value_gap
                          = snapshot.opportunities[j].expected_value_gap.n
                              + snapshot.opportunities[h].expected_value_gap.n
                    /\ bucket.expected_value_gap > 0

\* The temporal files of the directory.
TemporalFiles ==
    {name \in DOMAIN files : name.prefix = "closed_won" /\ name.part = "temporal"}

\* The sum of deal_count over the rows of a temporal file.
RECURSIVE DealCounts(_)
DealCounts(rows) ==
    IF rows = << >> THEN 0 ELSE rows[1].deal_count + DealCounts(Tail(rows))

\* C26: a temporal file has exactly one row for each pair (fiscal_year,
\* fiscal_quarter) of the snapshot's opportunities, the pair of the records
\* without a fiscal period included; the row holds the sum of the amounts
\* and the number of the opportunities of the pair, and the deal counts sum
\* to total_count.
C26_TemporalRows ==
    \A name \in TemporalFiles :
        LET f == files[name]
            opps == snapshot.opportunities
            pair(r) == <<r.fiscal_year, r.fiscal_quarter>>
            members(key) == {j \in 1..Len(opps) : pair(opps[j]) = key}
        IN  /\ {pair(f[h]) : h \in 1..Len(f)} = {pair(opps[j]) : j \in 1..Len(opps)}
            /\ \A h, g \in 1..Len(f) : pair(f[h]) = pair(f[g]) => h = g
            /\ \A h \in 1..Len(f) :
                  /\ f[h].total_amount = FieldOver(opps, members(pair(f[h])), "amount")
                  /\ f[h].deal_count = Cardinality(members(pair(f[h])))
            /\ DealCounts(f) = snapshot.total_count

\* get_report_data of the service has raised.
ParserRaised == pc = "raised" /\ error.in = "get_report_data"

\* get_report_data of the service has returned or raised.
ServiceCalled == (pc = "report" /\ report_data # PyNone) \/ ParserRaised

RECURSIVE RowsBefore(_, _)
\* The number of rows in the groups of the fact map before group g.
RowsBefore(factMap, g) ==
    IF g <= 1 THEN 0
    ELSE RowsBefore(factMap, g - 1)
            + (IF factMap[g - 1].has_rows THEN Len(factMap[g - 1].rows) ELSE 0)

\* The rows of the fact map: group and position in the group.
SourceRows(factMap) ==
    {<<g, r>> \in (1..Len(factMap)) \X (1..2) :
        factMap[g].has_rows /\ r <= Len(factMap[g].rows)}

\* A row of the fact map with more cells than the report has columns.
HasLongRow(answer) ==
    \E gr \in SourceRows(answer.factMap) :
        Len(answer.factMap[gr[1]].rows[gr[2]]) > Len(answer.detailColumns)

\* C21: get_report_data does not fail on a row with more cells than there
\* are column labels; in the rows it returns, every cell within the labels
\* is stored under the label of its position and every cell past them under
\* Column_<position>.  The same for the frame of pipeline_report.py.
C21_ExtraCellsKept ==
    (payload # PyNone /\ payload.found /\ payload.lacks = {}) =>
        /\ ~(ParserRaised /\ error.exc.type = "IndexError")
        /\ \A gr \in SourceRows(payload.factMap) :
              LET cells == payload.factMap[gr[1]].rows[gr[2]]
                  k == RowsBefore(payload.factMap, gr[1]) + gr[2]
                  name(n) == IF n <= Len(payload.detailColumns)
                             THEN payload.detailColumns[n] ELSE ColumnName(n - 1)
              IN  \A n \in 1..Len(cells) :
                      /\ report_data # PyNone =>
                            /\ name(n) \in DOMAIN report_data.raw_data[k]
                            /\ report_data.raw_data[k][name(n)] = cells[n]
                      /\ pc = "frame" => df.rows[k][name(n)] = cells[n]

\* C23: a ReportData the parser returns has total_records = len(raw_data),
\* one row per row of the groups that have 'rows', in the order of the fact
\* map; the row holds each cell under the label of its position and nothing
\* else.
C23_RowsOfFactMap ==
    (payload # PyNone /\ report_data # PyNone) =>
        LET rows == report_data.raw_data
            source == SourceRows(payload.factMap)
        IN  /\ report_data.total_records = Len(rows)
            /\ Len(rows) = Cardinality(source)
            /\ \A gr \in source :
                  LET cells == payload.factMap[gr[1]].rows[gr[2]]
                      row == rows[RowsBefore(payload.factMap, gr[1]) + gr[2]]
                  IN  /\ \A n \in 1..Len(cells) :
                            row[payload.detailColumns[n]] = cells[n]
                      /\ {label \in DOMAIN row : row[label] # Absent}
                            = {payload.detailColumns[n] : n \in 1..Len(cells)}

\* C23 witness: a ReportData of three rows from a fact map of two groups
\* with rows, whose first and last rows differ.
C23_Witness ==
    /\ payload # PyNone
    /\ report_data # PyNone
    /\ Len(payload.factMap) = 2
    /\ Len(payload.factMap[1].rows) = 2
    /\ Len(payload.factMap[2].rows) = 1
    /\ report_data.total_records = 3
    /\ report_data.raw_data[1] # report_data.raw_data[3]

\* The parts of the answers get_report_data cannot do without.
ServiceParts == {"reportMetadata", "detailColumns", "factMap"}

Difference(a, b) == IF a.k = "num" /\ b.k = "num" THEN Num(a.n - b.n) ELSE NaN

\* process_pipeline_data has returned or raised.
Processed ==
    pc = "processed" \/ (pc = "raised" /\ error.in = "process_pipeline_data")

\* C27: process_pipeline_data does not fail for a frame without the
\* expected-value columns, and for a frame that has both of them it puts
\* out the gap column, each row's gap being its expected value minus its
\* expected income, also when the frame has the upstream gap column.
C27_GapRecomputed ==
    Processed =>
        /\ ~(pc = "raised" /\ error.exc.type = "KeyError")
        /\ (pc = "processed" /\ HasColumn(df, ServicesEV) /\ HasColumn(df, ExpenseIncome)) =>
              /\ HasColumn(df, GapColumn)
              /\ \A j \in 1..Len(df.rows) :
                    df.rows[j][GapColumn]
                        = Difference(df.rows[j][ServicesEV], df.rows[j][ExpenseIncome])

\* The four fields of the manager.
Stored(m) == <<m.connection, m.accounts, m.contacts, m.opportunities>>

QueryOperations ==
    {"get_account_by_id", "get_contacts_by_account", "get_opportunities_by_account",
     "create_account_opportunity_mapping", "create_account_object_opportunity_mapping",
     "get_account_opportunity_summary"}

\* The positions in `added` of the opportunities of account a.
AddedFor(a) == {j \in 1..Len(manager.added) : manager.added[j].account_id = a}

\* What the last call returned is what the claim says of it.
C28_Returned ==
    manager # PyNone =>
        /\ manager.last.op = "get_opportunities_by_account" =>
              LET value == manager.last.value
                  at == AddedFor(manager.last.arg)
              IN  /\ Len(value) = Cardinality(at)
                  /\ \A j \in at :
                        value[Cardinality({h \in at : h <= j})] = manager.added[j]
        /\ manager.last.op = "clear_data" =>
              /\ manager.accounts = << >>
              /\ manager.contacts = << >>
              /\ manager.opportunities = << >>

\* What a call leaves as it was.
C28_Step ==
    (manager # PyNone /\ manager' # PyNone) =>
        /\ manager'.last.op = "clear_data" => manager'.connection = manager.connection
        /\ manager'.last.op \in QueryOperations => Stored(manager') = Stored(manager)

\* C28: get_opportunities_by_account(a) returns the opportunities added
\* since the last clear_data whose account_id is a, in the order they were
\* added and as often as they were added; clear_data empties the three
\* lists and keeps the connection; a query changes none of the four fields.
C28_ManagerQueries == []C28_Returned /\ [][C28_Step]_vars

\* C28 witness: after a clear_data that discarded opportunities, one
\* opportunity of account A1 was added twice among others and the query for
\* A1 returned it twice, the connection being set.
C28_Witness ==
    /\ manager # PyNone
    /\ manager.dropped
    /\ manager.connection # PyNone
    /\ manager.last.op = "get_opportunities_by_account"
    /\ manager.last.arg = Str(<<"A", "1">>)
    /\ Len(manager.last.value) = 2
    /\ manager.last.value[1] = manager.last.value[2]
    /\ Len(manager.added) = 2

RECURSIVE SumInts(_)
SumInts(q) == IF q = << >> THEN 0 ELSE q[1] + SumInts(Tail(q))

\* C29: in the result of get_account_opportunity_summary every entry has
\* total_opportunities = the number of stored opportunities of its account
\* id = the sum of its stages' counts, total_amount = the sum of its stages'
\* total_amount, average_amount 0 when it has no opportunities; and there is
\* exactly one entry per stored account id.
C29_SummaryTotals ==
    (manager # PyNone /\ manager.last.op = "get_account_opportunity_summary") =>
        LET summary == manager.last.value
            stored == manager.opportunities
        IN  /\ \A j \in 1..Len(summary) :
                  LET entry == summary[j].value
                      stages == entry.stages
                  IN  /\ entry.total_opportunities
                            = Cardinality({h \in 1..Len(stored) :
                                              stored[h].account_id = summary[j].name})
                      /\ entry.total_opportunities
                            = SumInts([h \in 1..Len(stages) |-> stages[h].value.count])
                      /\ entry.total_amount
                            = SumInts([h \in 1..Len(stages) |-> stages[h].value.total_amount])
                      /\ entry.total_opportunities = 0 => entry.average_amount.num = 0
            /\ \A j, h \in 1..Len(summary) : summary[j].name = summary[h].name => j = h
            /\ {summary[j].name : j \in 1..Len(summary)}
                  = {manager.accounts[j].id : j \in 1..Len(manager.accounts)}

\* C29 witness: two stored accounts share an id and have two opportunities
\* in two stages, one of them without amount; the summary has one entry.
C29_Witness ==
    /\ manager # PyNone
    /\ manager.last.op = "get_account_opportunity_summary"
    /\ Len(manager.accounts) = 2
    /\ manager.accounts[1].id = manager.accounts[2].id
    /\ manager.accounts[1] # manager.accounts[2]
    /\ Len(manager.last.value) = 1
    /\ manager.last.value[1].value.total_opportunities = 2
    /\ Len(manager.last.value[1].value.stages) = 2
    /\ \E j \in 1..2 : manager.opportunities[j].amount = PyNone

\* Every retrieval that was started has ended and Tk has run every callback.
AllCallbacksRun ==
    /\ gui.queue = << >>
    /\ \A w \in Retrievals : gui.threads[w].at \in {"unstarted", "finished"}
    /\ \E w \in Retrievals : gui.threads[w].at = "finished"

\* C30: once every callback of every retrieval has run, the progress is 0
\* and the log has the 'Error in data retrieval' line of every retrieval
\* whose query raised.
C30_FailureShown ==
    (gui # PyNone /\ AllCallbacksRun) =>
        /\ gui.progress = 0
        /\ \A w \in Retrievals :
              gui.threads[w].failed =>
                  [of |-> w, text |-> "Error in data retrieval: <message>"] \in gui.log

====
